---- MODULE Spec2Model ----
(***************************************************************************)
(* A model of ChatVid's chunking engine (src/chatvid/chunking.py) and its  *)
(* configuration validation (src/chatvid/config.py).                       *)
(*                                                                         *)
(* Strings are sequences of one-character strings.  Python indices are     *)
(* 0-based and kept 0-based in the state (i, start, offsets); sequence     *)
(* accesses add 1.                                                         *)
(***************************************************************************)
EXTENDS Integers, Sequences, FiniteSets, TLC

VARIABLES
    min_chunk_size,      \* SemanticChunker.min_chunk_size
    max_chunk_size,      \* SemanticChunker.max_chunk_size
    target_chunk_size,   \* SemanticChunker.target_chunk_size
    overlap_sentences,   \* SemanticChunker.overlap_sentences
    sentences,           \* the sentence list: chunk_text's local, _group_sentences' argument
    grp,                 \* the locals of one run of _group_sentences
    split_in,            \* the argument of _split_oversized_sentences
    split_out,           \* what that call did: not called, returned, raised
    chunker,             \* per instance: backend, _tokenizer, _backend_used
    spacy_ok,            \* the environment: _try_load_spacy finds spaCy and its model
    nltk_ok,             \* the environment: _try_load_nltk finds NLTK and punkt
    nltk_failing,        \* the environment: the library calls that raise, by batch
                         \* number (sent_tokenize on a batch; 0 also for spaCy's nlp(text))
    loads,               \* history, per instance: the loaders run so far, in order
    last_get,            \* history, per instance: how the last _get_tokenizer call ended
    text,                \* the argument of chunk_text
    pc,                  \* where the chunk_text call stands
    result,              \* what chunk_text returned
    fx,                  \* the FixedChunker run: its fields and locals
    min_top_k,           \* QueryComplexityAnalyzer.min_top_k
    max_top_k,           \* QueryComplexityAnalyzer.max_top_k
    max_variants,        \* QueryExpander.max_variants
    query,               \* the argument of analyze and of expand
    method,              \* the method argument of expand
    analysis,            \* what analyze returned
    variants,            \* what expand returned
    rpc,                 \* where the analyze or expand call stands
    config               \* the ChunkingConfig construction: arguments, outcome, object

cfgVars == <<min_chunk_size, max_chunk_size, target_chunk_size, overlap_sentences,
             config>>
grpVars == <<sentences, grp>>
splitVars == <<split_in, split_out>>
envVars == <<spacy_ok, nltk_ok, nltk_failing>>
backendVars == <<chunker, loads, last_get>>
callVars == <<text, pc, result>>
retrVars == <<min_top_k, max_top_k, max_variants, query, method, analysis, variants, rpc>>
vars == <<cfgVars, grpVars, splitVars, envVars, backendVars, callVars, fx, retrVars>>

(***************************************************************************)
(* Bounds of the model.                                                    *)
(***************************************************************************)
MaxSize == 3        \* largest min/max/target chunk size explored
MaxSents == 4       \* longest sentence list given to _group_sentences
MaxSentLen == 3     \* longest sentence given to _group_sentences
OverlapChoices == {0, 1, 2}
MaxSplitLen == 4    \* longest sentence drawn from all strings for the splitter
MaxWords == 3       \* most words in a sentence built from words for the splitter
MaxTextLen == 4     \* longest document given to chunk_text
MaxBatchTextLen == 6 \* longest document given to chunk_text for batched extraction
BatchChars == 2     \* max_chunk_for_nltk (500000 in the code), scaled to these documents
MaxFixedSteps == 3  \* iterations explored of a FixedChunker loop that does not end
MaxLoads == 3       \* loader runs explored per chunker instance
MaxFixedSize == 3   \* largest chunk_size of a FixedChunker run on its own
MaxFixedLen == 5    \* longest text of a FixedChunker run on its own
MaxConfigValue == 2 \* largest integer field given to ChunkingConfig
MaxPad == 7         \* words appended to a query to make it long
MaxMinTopK == 2     \* largest min_top_k explored besides the default
MaxTopKRange == 10  \* largest max_top_k - min_top_k explored besides the default
MaxVariants == 6    \* largest max_variants explored

(***************************************************************************)
(* ChunkingConfig: the dataclass and its __post_init__ validation.  A      *)
(* construction is [pc, args, object]: pc is "off" when none is modelled,  *)
(* "call" before __post_init__ ran, then "constructed" or "raised"; object *)
(* holds the configuration object and is empty when there is none.         *)
(***************************************************************************)
NoArgs ==
    [chunk_size |-> 1, chunk_overlap |-> 0, chunking_strategy |-> "semantic",
     min_chunk_size |-> 1, max_chunk_size |-> 1, overlap_sentences |-> 0]

NoConfig == [pc |-> "off", args |-> NoArgs, object |-> <<>>]

\* __post_init__: the message of the ValueError it raises, "ok" when it
\* returns
post_init(a) ==
    IF a.chunk_size <= 0 THEN "chunk_size must be positive"
    ELSE IF a.chunk_overlap < 0 THEN "chunk_overlap must be non-negative"
    ELSE IF a.chunk_overlap >= a.chunk_size
    THEN "chunk_overlap must be less than chunk_size"
    ELSE IF a.chunking_strategy \notin {"fixed", "semantic"}
    THEN "chunking_strategy must be 'fixed' or 'semantic'"
    ELSE IF a.min_chunk_size <= 0 THEN "min_chunk_size must be positive"
    ELSE IF a.max_chunk_size <= 0 THEN "max_chunk_size must be positive"
    ELSE IF a.min_chunk_size > a.max_chunk_size
    THEN "min_chunk_size must be <= max_chunk_size"
    ELSE IF a.overlap_sentences < 0 THEN "overlap_sentences must be non-negative"
    ELSE "ok"

(***************************************************************************)
(* Python string and list primitives.                                      *)
(***************************************************************************)
Range(s) == {s[k] : k \in 1..Len(s)}

Min2(a, b) == IF a <= b THEN a ELSE b

Max2(a, b) == IF a >= b THEN a ELSE b

\* seq[lo:hi] for 0 <= lo, hi (Python clips hi to len(seq))
Slice(s, lo, hi) ==
    LET h == Min2(hi, Len(s))
    IN  IF lo >= h THEN <<>> ELSE SubSeq(s, lo + 1, h)

\* seq[-n:] for n > 0
LastN(s, n) == IF n >= Len(s) THEN s ELSE SubSeq(s, Len(s) - n + 1, Len(s))

FirstN(s, n) == IF n >= Len(s) THEN s ELSE SubSeq(s, 1, n)

IsSpace(c) == c = " "

RECURSIVE LStrip(_)
LStrip(s) == IF s # <<>> /\ IsSpace(s[1]) THEN LStrip(Tail(s)) ELSE s

RECURSIVE RStrip(_)
RStrip(s) ==
    IF s # <<>> /\ IsSpace(s[Len(s)]) THEN RStrip(SubSeq(s, 1, Len(s) - 1)) ELSE s

\* str.strip()
Strip(s) == RStrip(LStrip(s))

\* sep.join(parts)
RECURSIVE Join(_, _)
Join(parts, sep) ==
    IF parts = <<>> THEN <<>>
    ELSE IF Len(parts) = 1 THEN parts[1]
    ELSE parts[1] \o sep \o Join(Tail(parts), sep)

\* sum(len(s[0]) for s in sents)
RECURSIVE SumLen(_)
SumLen(sents) ==
    IF sents = <<>> THEN 0 ELSE Len(sents[1][1]) + SumLen(Tail(sents))

Texts(sents) == [k \in 1..Len(sents) |-> sents[k][1]]

\* str.split(sep) for a one-character separator: the parts between the
\* separators, empty parts included
RECURSIVE SplitOn(_, _)
SplitOn(s, sep) ==
    IF \A k \in 1..Len(s) : s[k] # sep THEN <<s>>
    ELSE LET k == CHOOSE k \in 1..Len(s) :
                    s[k] = sep /\ \A j \in 1..(k - 1) : s[j] # sep
         IN  <<SubSeq(s, 1, k - 1)>> \o SplitOn(SubSeq(s, k + 1, Len(s)), sep)

\* str.split(): the maximal runs of non-whitespace characters
RECURSIVE SplitWs(_)
SplitWs(s) ==
    LET t == LStrip(s)
    IN  IF t = <<>> THEN <<>>
        ELSE IF \A k \in 1..Len(t) : ~IsSpace(t[k]) THEN <<t>>
        ELSE LET k == CHOOSE k \in 1..Len(t) :
                        IsSpace(t[k]) /\ \A j \in 1..(k - 1) : ~IsSpace(t[j])
             IN  <<SubSeq(t, 1, k - 1)>> \o SplitWs(SubSeq(t, k + 1, Len(t)))

\* [' '.join(words[i:i+n]) for i in range(0, len(words), n)], n >= 1
RECURSIVE WordGroups(_, _)
WordGroups(words, n) ==
    IF words = <<>> THEN <<>>
    ELSE <<Join(FirstN(words, n), <<" ">>)>>
            \o WordGroups(Slice(words, n, Len(words)), n)

Contains(s, c) == \E k \in 1..Len(s) : s[k] = c

(***************************************************************************)
(* Chunk and SemanticChunker._create_chunk.                                *)
(***************************************************************************)
Chunk(txt, start_char, end_char, sentence_count) ==
    [text |-> txt, start_char |-> start_char, end_char |-> end_char,
     sentence_count |-> sentence_count]

create_chunk(sents) ==
    IF sents = <<>> THEN Chunk(<<>>, 0, 0, 0)
    ELSE Chunk(Join(Texts(sents), <<" ">>), sents[1][2], sents[Len(sents)][3],
               Len(sents))

(***************************************************************************)
(* SemanticChunker._group_sentences.  grp holds its locals: chunks,        *)
(* current_sentences, current_size, i, and pc (where the run stands).      *)
(* made is a history of the _create_chunk calls behind chunks: made[k]     *)
(* holds the sentence tuples chunk k was built from and the place in the   *)
(* code ("max", "overlap", "target", "final", "merged") that built it.     *)
(***************************************************************************)
GroupStart ==
    [pc |-> "loop", chunks |-> <<>>, current_sentences |-> <<>>,
     current_size |-> 0, i |-> 0, made |-> <<>>]

GroupIdle == [GroupStart EXCEPT !.pc = "idle"]

NotCalled == [pc |-> "idle", result |-> <<>>]

\* chunk = self._create_chunk(current_sentences); chunks.append(chunk)
FlushBuffer(st, at) ==
    [st EXCEPT !.chunks = Append(@, create_chunk(st.current_sentences)),
               !.made = Append(@, [sents |-> st.current_sentences, at |-> at])]

\* KeepOverlap with the slice taken from the wrong end of the buffer
KeepOverlap_FromFront(st) ==
    LET overlap_count == Min2(overlap_sentences, Len(st.current_sentences))
        kept == IF overlap_count > 0
                THEN FirstN(st.current_sentences, overlap_count) ELSE <<>>
    IN  [st EXCEPT !.current_sentences = kept, !.current_size = SumLen(kept)]

\* the overlap retained after a flush, and current_size recomputed from it
KeepOverlap(st) ==
    LET overlap_count == Min2(overlap_sentences, Len(st.current_sentences))
        kept == IF overlap_count > 0
                THEN LastN(st.current_sentences, overlap_count) ELSE <<>>
    IN  [st EXCEPT !.current_sentences = kept, !.current_size = SumLen(kept)]

\* the while loop without the flush of an overlap that is too large: the
\* overlap stays in the buffer
GroupIter_OverlapStays(sents, st) ==
    LET s == sents[st.i + 1]
        sent_len == Len(s[1])
    IN  IF st.current_size + sent_len > max_chunk_size
           /\ st.current_size >= min_chunk_size
        THEN KeepOverlap(FlushBuffer(st, "max"))
        ELSE LET b == [st EXCEPT !.current_sentences = Append(@, s),
                                 !.current_size = @ + sent_len,
                                 !.i = @ + 1]
             IN  IF b.current_size >= target_chunk_size
                 THEN KeepOverlap(FlushBuffer(b, "target"))
                 ELSE b

\* one iteration of the while loop
GroupIter(sents, st) ==
    LET s == sents[st.i + 1]
        sent_len == Len(s[1])
    IN  IF st.current_size + sent_len > max_chunk_size
           /\ st.current_size >= min_chunk_size
        THEN LET a == KeepOverlap(FlushBuffer(st, "max"))
             IN  IF a.current_size + sent_len > max_chunk_size
                    /\ a.current_sentences # <<>>
                 THEN [FlushBuffer(a, "overlap") EXCEPT
                          !.current_sentences = <<>>, !.current_size = 0]
                 ELSE a
        ELSE LET b == [st EXCEPT !.current_sentences = Append(@, s),
                                 !.current_size = @ + sent_len,
                                 !.i = @ + 1]
             IN  IF b.current_size >= target_chunk_size
                 THEN KeepOverlap(FlushBuffer(b, "target"))
                 ELSE b

\* GroupFinal with a too-small remainder dropped instead of merged
GroupFinal_DropSmall(st) ==
    LET chunk == create_chunk(st.current_sentences)
        n == Len(st.chunks)
    IN  IF st.current_sentences = <<>> THEN [st EXCEPT !.pc = "done"]
        ELSE IF Len(chunk.text) >= min_chunk_size \/ n = 0
        THEN [FlushBuffer(st, "final") EXCEPT !.pc = "done"]
        ELSE [st EXCEPT !.pc = "done"]

\* GroupFinal with a merge that keeps the previous chunk's end_char
GroupFinal_MergeKeepsEnd(st) ==
    LET chunk == create_chunk(st.current_sentences)
        n == Len(st.chunks)
    IN  IF st.current_sentences = <<>> THEN [st EXCEPT !.pc = "done"]
        ELSE IF Len(chunk.text) >= min_chunk_size \/ n = 0
        THEN [FlushBuffer(st, "final") EXCEPT !.pc = "done"]
        ELSE LET last_chunk == st.chunks[n]
             IN  [st EXCEPT
                    !.pc = "done",
                    !.chunks[n] = Chunk(last_chunk.text \o <<" ">> \o chunk.text,
                                        last_chunk.start_char, last_chunk.end_char,
                                        last_chunk.sentence_count
                                            + chunk.sentence_count),
                    !.made[n] = [sents |-> @.sents \o st.current_sentences,
                                 at |-> "merged"]]

\* the code after the loop: the remaining buffer is kept, merged or absent
GroupFinal(st) ==
    LET chunk == create_chunk(st.current_sentences)
        n == Len(st.chunks)
    IN  IF st.current_sentences = <<>> THEN [st EXCEPT !.pc = "done"]
        ELSE IF Len(chunk.text) >= min_chunk_size \/ n = 0
        THEN [FlushBuffer(st, "final") EXCEPT !.pc = "done"]
        ELSE LET last_chunk == st.chunks[n]
             IN  [st EXCEPT
                    !.pc = "done",
                    !.chunks[n] = Chunk(last_chunk.text \o <<" ">> \o chunk.text,
                                        last_chunk.start_char, chunk.end_char,
                                        last_chunk.sentence_count
                                            + chunk.sentence_count),
                    !.made[n] = [sents |-> @.sents \o st.current_sentences,
                                 at |-> "merged"]]

\* The whole of _group_sentences as a function of its argument.
RECURSIVE GroupLoop(_, _)
GroupLoop(sents, st) ==
    IF st.i < Len(sents) THEN GroupLoop(sents, GroupIter(sents, st))
    ELSE GroupFinal(st)

group_sentences(sents) ==
    IF sents = <<>> THEN [GroupStart EXCEPT !.pc = "done"]
    ELSE GroupLoop(sents, GroupStart)

(***************************************************************************)
(* SemanticChunker._split_oversized_sentences.  A call either returns a    *)
(* sentence list or raises (range() with a zero step is a ValueError).     *)
(***************************************************************************)
WordsDivisor == 10

Separators == {";", ":", ","}

\* FirstPass with the separators tried in the order ',' then ':' then ';'
FirstPass_CommaFirst(sent_text) ==
    IF Contains(sent_text, ",")
    THEN [raised |-> FALSE, parts |-> SplitOn(sent_text, ","), separator |-> ","]
    ELSE IF Contains(sent_text, ":")
    THEN [raised |-> FALSE, parts |-> SplitOn(sent_text, ":"), separator |-> ":"]
    ELSE IF Contains(sent_text, ";")
    THEN [raised |-> FALSE, parts |-> SplitOn(sent_text, ";"), separator |-> ";"]
    ELSE LET words == SplitWs(sent_text)
             words_per_part == max_chunk_size \div WordsDivisor
         IN  IF words_per_part = 0
             THEN [raised |-> TRUE, parts |-> <<>>, separator |-> " "]
             ELSE [raised |-> FALSE, parts |-> WordGroups(words, words_per_part),
                   separator |-> " "]

\* the first-pass split of a sentence longer than max_chunk_size
FirstPass(sent_text) ==
    IF Contains(sent_text, ";")
    THEN [raised |-> FALSE, parts |-> SplitOn(sent_text, ";"), separator |-> ";"]
    ELSE IF Contains(sent_text, ":")
    THEN [raised |-> FALSE, parts |-> SplitOn(sent_text, ":"), separator |-> ":"]
    ELSE IF Contains(sent_text, ",")
    THEN [raised |-> FALSE, parts |-> SplitOn(sent_text, ","), separator |-> ","]
    ELSE LET words == SplitWs(sent_text)
             words_per_part == max_chunk_size \div WordsDivisor
         IN  IF words_per_part = 0
             THEN [raised |-> TRUE, parts |-> <<>>, separator |-> " "]
             ELSE [raised |-> FALSE, parts |-> WordGroups(words, words_per_part),
                   separator |-> " "]

\* the force split of a part that is still too long: acc holds result and
\* current_pos
RECURSIVE ForceSplit(_, _)
ForceSplit(groups, acc) ==
    IF groups = <<>> THEN acc
    ELSE LET sub_part == groups[1]
         IN  ForceSplit(Tail(groups),
                IF Strip(sub_part) # <<>>
                THEN [result |-> Append(acc.result,
                                    <<Strip(sub_part), acc.current_pos,
                                      acc.current_pos + Len(sub_part)>>),
                      current_pos |-> acc.current_pos + Len(sub_part) + 1]
                ELSE acc)

\* for i, part in enumerate(parts): ... from index i on
RECURSIVE AddParts(_, _, _, _)
AddParts(parts, i, separator, acc) ==
    IF i >= Len(parts) THEN acc
    ELSE LET part_text == Strip(parts[i + 1])
         IN  IF part_text = <<>> THEN AddParts(parts, i + 1, separator, acc)
             ELSE IF Len(part_text) > max_chunk_size
             THEN LET words == SplitWs(part_text)
                      words_per_chunk == Max2(1, max_chunk_size \div WordsDivisor)
                  IN  AddParts(parts, i + 1, separator,
                               ForceSplit(WordGroups(words, words_per_chunk), acc))
             ELSE LET restored ==
                          IF i < Len(parts) - 1 /\ separator \in Separators
                          THEN part_text \o <<separator>> ELSE part_text
                  IN  AddParts(parts, i + 1, separator,
                        [result |-> Append(acc.result,
                                       <<restored, acc.current_pos,
                                         acc.current_pos + Len(restored)>>),
                         current_pos |-> acc.current_pos + Len(restored) + 1])

\* the body of the for loop over sentences, for one sentence
SplitOne(sent, res) ==
    IF Len(sent[1]) <= max_chunk_size
    THEN [raised |-> FALSE, result |-> Append(res, sent)]
    ELSE LET fp == FirstPass(sent[1])
         IN  IF fp.raised THEN [raised |-> TRUE, result |-> res]
             ELSE [raised |-> FALSE,
                   result |-> AddParts(fp.parts, 0, fp.separator,
                                 [result |-> res, current_pos |-> sent[2]]).result]

RECURSIVE SplitFrom(_, _, _)
SplitFrom(sents, k, res) ==
    IF k > Len(sents) THEN [raised |-> FALSE, result |-> res]
    ELSE LET one == SplitOne(sents[k], res)
         IN  IF one.raised THEN one ELSE SplitFrom(sents, k + 1, one.result)

split_oversized_sentences(sents) == SplitFrom(sents, 1, <<>>)

(***************************************************************************)
(* Sentence extraction: the regex backend, the statistical (NLTK) backend  *)
(* with its batches, and the spaCy backend.                                *)
(***************************************************************************)
IsTerm(c) == c \in {".", "!", "?"}

\* the character classes the scans look for
InClass(c, class) ==
    CASE class = "term" -> IsTerm(c)
      [] class = "nonterm" -> ~IsTerm(c)
      [] class = "nonspace" -> ~IsSpace(c)

\* the first 0-based position >= p whose character is in class, or len(s)
RECURSIVE NextWhere(_, _, _)
NextWhere(s, p, class) ==
    IF p >= Len(s) THEN Len(s)
    ELSE IF InClass(s[p + 1], class) THEN p ELSE NextWhere(s, p + 1, class)

\* re.finditer(r'[^.!?]+[.!?]+', text) from position p on, with the
\* filtering of _extract_sentences_regex: (match.strip(), start, end)
RECURSIVE RegexFrom(_, _)
RegexFrom(txt, p) ==
    LET i == NextWhere(txt, p, "nonterm")
        j == NextWhere(txt, i, "term")
        k == NextWhere(txt, j, "nonterm")
        sent_text == Strip(Slice(txt, i, k))
    IN  IF i >= Len(txt) \/ j >= Len(txt) THEN <<>>
        ELSE (IF sent_text # <<>> /\ Len(sent_text) > 1
              THEN <<<<sent_text, i, k>>>> ELSE <<>>) \o RegexFrom(txt, k)

extract_sentences_regex(txt) == RegexFrom(txt, 0)

\* The sentence boundaries the library tokenizers are taken to find: a run
\* of terminators followed by whitespace ends a sentence; the text after the
\* last boundary is a sentence too.  Spans(text, p) are the [start, end)
\* spans from position p on.
RECURSIVE SpansFrom(_, _, _)
SpansFrom(txt, start, p) ==
    LET j0 == NextWhere(txt, p, "term")
        j1 == NextWhere(txt, j0, "nonterm")
        j2 == NextWhere(txt, j1, "nonspace")
    IN  IF j0 >= Len(txt)
        THEN IF start < Len(txt) THEN <<<<start, Len(txt)>>>> ELSE <<>>
        ELSE IF j2 > j1
        THEN <<<<start, j1>>>> \o SpansFrom(txt, j2, j2)
        ELSE SpansFrom(txt, start, j1)

\* nltk.tokenize.sent_tokenize(text): the sentence strings
sent_tokenize(txt) ==
    LET sp == SpansFrom(txt, 0, 0)
    IN  [k \in 1..Len(sp) |-> Slice(txt, sp[k][1], sp[k][2])]

\* str.find(sub, start)
RECURSIVE Find(_, _, _)
Find(txt, sub, start) ==
    IF start + Len(sub) > Len(txt) THEN -1
    ELSE IF Slice(txt, start, start + Len(sub)) = sub THEN start
    ELSE Find(txt, sub, start + 1)

\* the position loop of _extract_sentences_nltk_batch
RECURSIVE LocateFrom(_, _, _, _, _)
LocateFrom(txt, sentence_texts, k, current_pos, offset) ==
    IF k > Len(sentence_texts) THEN <<>>
    ELSE LET sent_text_stripped == Strip(sentence_texts[k])
             start == Find(txt, sent_text_stripped, current_pos)
             end == start + Len(sent_text_stripped)
         IN  IF sent_text_stripped # <<>> /\ start # -1
             THEN <<<<sent_text_stripped, offset + start, offset + end>>>>
                    \o LocateFrom(txt, sentence_texts, k + 1, end, offset)
             ELSE LocateFrom(txt, sentence_texts, k + 1, current_pos, offset)

\* _extract_sentences_nltk_batch; fails: the sent_tokenize call raises
extract_sentences_nltk_batch(txt, fails, offset) ==
    IF fails THEN extract_sentences_regex(txt)
    ELSE LocateFrom(txt, sent_tokenize(txt), 1, 0, offset)

\* _extract_sentences_nltk; failing: the numbers (0, 1, ...) of the batches
\* whose sent_tokenize call raises; batch: the scaled max_chunk_for_nltk
RECURSIVE NltkBatchesFrom(_, _, _, _)
NltkBatchesFrom(txt, i, failing, batch) ==
    IF i >= Len(txt) THEN <<>>
    ELSE extract_sentences_nltk_batch(Slice(txt, i, i + batch),
                                      (i \div batch) \in failing, i)
            \o NltkBatchesFrom(txt, i + batch, failing, batch)

extract_sentences_nltk(txt, failing, batch) ==
    IF Len(txt) > batch THEN NltkBatchesFrom(txt, 0, failing, batch)
    ELSE extract_sentences_nltk_batch(txt, 0 \in failing, 0)

\* _extract_sentences_spacy: doc.sents as (sent.text.strip(), start, end)
RECURSIVE SpacyFrom(_, _, _)
SpacyFrom(txt, sp, k) ==
    IF k > Len(sp) THEN <<>>
    ELSE LET sent_text == Strip(Slice(txt, sp[k][1], sp[k][2]))
         IN  (IF sent_text # <<>> THEN <<<<sent_text, sp[k][1], sp[k][2]>>>>
              ELSE <<>>) \o SpacyFrom(txt, sp, k + 1)

extract_sentences_spacy(txt) == SpacyFrom(txt, SpansFrom(txt, 0, 0), 1)

(***************************************************************************)
(* Backend resolution.  A chunker is [backend, tokenizer, backend_used];   *)
(* "None" stands for Python's None.  GetTokenizer gives the chunker after  *)
(* the call, whether the call raised, and the loaders it ran, in order.    *)
(***************************************************************************)
NewChunker(backend) ==
    [backend |-> backend, tokenizer |-> "None", backend_used |-> "None"]

\* _try_load_spacy / _try_load_nltk under the library availability
try_load_spacy(s_ok) == IF s_ok THEN "nlp" ELSE "None"

try_load_nltk(n_ok) == IF n_ok THEN "sent_tokenize" ELSE "None"

\* GetTokenizer as it would be if an explicitly requested backend that
\* cannot be loaded were replaced through the automatic chain
GetTokenizer_TriesOthers(c, s_ok, n_ok) ==
    IF c.tokenizer # "None"
    THEN [chunker |-> c, raised |-> FALSE, loaded |-> <<>>]
    ELSE IF c.backend \in {"spacy", "nltk"}
    THEN IF try_load_spacy(s_ok) # "None"
         THEN [chunker |-> [c EXCEPT !.tokenizer = try_load_spacy(s_ok),
                                     !.backend_used = "spacy"],
               raised |-> FALSE, loaded |-> <<"spacy">>]
         ELSE IF try_load_nltk(n_ok) # "None"
         THEN [chunker |-> [c EXCEPT !.tokenizer = try_load_nltk(n_ok),
                                     !.backend_used = "nltk"],
               raised |-> FALSE, loaded |-> <<"spacy", "nltk">>]
         ELSE [chunker |-> [c EXCEPT !.backend_used = c.backend],
               raised |-> TRUE, loaded |-> <<"spacy", "nltk">>]
    ELSE IF c.backend = "auto"
    THEN [chunker |-> [c EXCEPT !.backend_used = "regex"],
          raised |-> FALSE, loaded |-> <<"spacy", "nltk">>]
    ELSE IF c.backend = "regex"
    THEN [chunker |-> [c EXCEPT !.backend_used = "regex"],
          raised |-> FALSE, loaded |-> <<>>]
    ELSE [chunker |-> c, raised |-> TRUE, loaded |-> <<>>]

\* GetTokenizer with the automatic chain trying NLTK before spaCy
GetTokenizer_NltkFirst(c, s_ok, n_ok) ==
    IF c.tokenizer # "None"
    THEN [chunker |-> c, raised |-> FALSE, loaded |-> <<>>]
    ELSE IF c.backend = "auto"
    THEN IF try_load_nltk(n_ok) # "None"
         THEN [chunker |-> [c EXCEPT !.tokenizer = try_load_nltk(n_ok),
                                     !.backend_used = "nltk"],
               raised |-> FALSE, loaded |-> <<"nltk">>]
         ELSE IF try_load_spacy(s_ok) # "None"
         THEN [chunker |-> [c EXCEPT !.tokenizer = try_load_spacy(s_ok),
                                     !.backend_used = "spacy"],
               raised |-> FALSE, loaded |-> <<"nltk", "spacy">>]
         ELSE [chunker |-> [c EXCEPT !.tokenizer = "None",
                                     !.backend_used = "regex"],
               raised |-> FALSE, loaded |-> <<"nltk", "spacy">>]
    ELSE IF c.backend = "spacy"
    THEN [chunker |-> [c EXCEPT !.tokenizer = try_load_spacy(s_ok),
                                !.backend_used = "spacy"],
          raised |-> try_load_spacy(s_ok) = "None", loaded |-> <<"spacy">>]
    ELSE IF c.backend = "nltk"
    THEN [chunker |-> [c EXCEPT !.tokenizer = try_load_nltk(n_ok),
                                !.backend_used = "nltk"],
          raised |-> try_load_nltk(n_ok) = "None", loaded |-> <<"nltk">>]
    ELSE IF c.backend = "regex"
    THEN [chunker |-> [c EXCEPT !.tokenizer = "None", !.backend_used = "regex"],
          raised |-> FALSE, loaded |-> <<>>]
    ELSE [chunker |-> c, raised |-> TRUE, loaded |-> <<>>]

GetTokenizer(c, s_ok, n_ok) ==
    IF c.tokenizer # "None"
    THEN [chunker |-> c, raised |-> FALSE, loaded |-> <<>>]
    ELSE IF c.backend = "auto"
    THEN IF try_load_spacy(s_ok) # "None"
         THEN [chunker |-> [c EXCEPT !.tokenizer = try_load_spacy(s_ok),
                                     !.backend_used = "spacy"],
               raised |-> FALSE, loaded |-> <<"spacy">>]
         ELSE IF try_load_nltk(n_ok) # "None"
         THEN [chunker |-> [c EXCEPT !.tokenizer = try_load_nltk(n_ok),
                                     !.backend_used = "nltk"],
               raised |-> FALSE, loaded |-> <<"spacy", "nltk">>]
         ELSE [chunker |-> [c EXCEPT !.tokenizer = "None",
                                     !.backend_used = "regex"],
               raised |-> FALSE, loaded |-> <<"spacy", "nltk">>]
    ELSE IF c.backend = "spacy"
    THEN [chunker |-> [c EXCEPT !.tokenizer = try_load_spacy(s_ok),
                                !.backend_used = "spacy"],
          raised |-> try_load_spacy(s_ok) = "None", loaded |-> <<"spacy">>]
    ELSE IF c.backend = "nltk"
    THEN [chunker |-> [c EXCEPT !.tokenizer = try_load_nltk(n_ok),
                                !.backend_used = "nltk"],
          raised |-> try_load_nltk(n_ok) = "None", loaded |-> <<"nltk">>]
    ELSE IF c.backend = "regex"
    THEN [chunker |-> [c EXCEPT !.tokenizer = "None", !.backend_used = "regex"],
          raised |-> FALSE, loaded |-> <<>>]
    ELSE [chunker |-> c, raised |-> TRUE, loaded |-> <<>>]

(***************************************************************************)
(* FixedChunker.chunk_text.  fx holds the chunker's fields and the locals  *)
(* of one run: text, start, chunks, and pc; steps counts the iterations.   *)
(***************************************************************************)
\* text[lo:hi] with Python's treatment of negative and oversized indices
PySlice(s, lo, hi) ==
    LET nlo == IF lo < 0 THEN Max2(lo + Len(s), 0) ELSE Min2(lo, Len(s))
        nhi == IF hi < 0 THEN Max2(hi + Len(s), 0) ELSE Min2(hi, Len(s))
    IN  IF nlo >= nhi THEN <<>> ELSE SubSeq(s, nlo + 1, nhi)

FixedIdle ==
    [pc |-> "idle", chunk_size |-> 0, overlap |-> 0, text |-> <<>>,
     start |-> 0, chunks |-> <<>>, steps |-> 0]

\* FixedChunker(chunk_size, overlap).chunk_text(text) up to the loop
FixedStart(chunk_size, overlap, txt) ==
    [pc |-> IF txt = <<>> THEN "returned" ELSE "loop",
     chunk_size |-> chunk_size, overlap |-> overlap, text |-> txt,
     start |-> 0, chunks |-> <<>>, steps |-> 0]

\* the while loop without the chunk.strip() test
FixedIter_KeepsBlank(f) ==
    LET end == Min2(f.start + f.chunk_size, Len(f.text))
        chunk == PySlice(f.text, f.start, end)
    IN  [f EXCEPT !.chunks = Append(@, chunk),
                  !.start = @ + f.chunk_size - f.overlap,
                  !.steps = @ + 1]

\* the while loop with start advanced by chunk_size alone
FixedIter_StrideIsSize(f) ==
    LET end == Min2(f.start + f.chunk_size, Len(f.text))
        chunk == PySlice(f.text, f.start, end)
    IN  [f EXCEPT !.chunks = IF Strip(chunk) # <<>> THEN Append(@, chunk) ELSE @,
                  !.start = @ + f.chunk_size,
                  !.steps = @ + 1]

\* one iteration of the while loop
FixedIter(f) ==
    LET end == Min2(f.start + f.chunk_size, Len(f.text))
        chunk == PySlice(f.text, f.start, end)
    IN  [f EXCEPT !.chunks = IF Strip(chunk) # <<>> THEN Append(@, chunk) ELSE @,
                  !.start = @ + f.chunk_size - f.overlap,
                  !.steps = @ + 1]

(***************************************************************************)
(* SemanticChunker._extract_sentences and _fallback_chunking.              *)
(***************************************************************************)
Inst == {1, 2}

\* _extract_sentences with the except clause returning what the regex
\* finds instead of the empty list
extract_sentences_RegexOnError(c, doc, s_ok, n_ok, failing) ==
    LET r == GetTokenizer(c, s_ok, n_ok)
    IN  [chunker |-> r.chunker, raised |-> r.raised, loaded |-> r.loaded,
         sentences |->
            IF r.raised THEN extract_sentences_regex(doc)
            ELSE IF r.chunker.backend_used = "spacy"
            THEN IF 0 \in failing THEN extract_sentences_regex(doc)
                 ELSE extract_sentences_spacy(doc)
            ELSE IF r.chunker.backend_used = "nltk"
            THEN extract_sentences_nltk(doc, failing, BatchChars)
            ELSE extract_sentences_regex(doc)]

\* _extract_sentences on chunker c: resolution, then the backend's
\* extraction; an exception of either (a raising resolution, a raising
\* nlp(text) of spaCy) gives the empty list
extract_sentences(c, doc, s_ok, n_ok, failing) ==
    LET r == GetTokenizer(c, s_ok, n_ok)
    IN  [chunker |-> r.chunker, raised |-> r.raised, loaded |-> r.loaded,
         sentences |->
            IF r.raised THEN <<>>
            ELSE IF r.chunker.backend_used = "spacy"
            THEN IF 0 \in failing THEN <<>> ELSE extract_sentences_spacy(doc)
            ELSE IF r.chunker.backend_used = "nltk"
            THEN extract_sentences_nltk(doc, failing, BatchChars)
            ELSE extract_sentences_regex(doc)]

\* re.split(r'[.!?]+[\s\n]+', text): the pieces from piece_start on, the
\* search for the next separator standing at p
RECURSIVE ReSplitFrom(_, _, _)
ReSplitFrom(doc, piece_start, p) ==
    LET j0 == NextWhere(doc, p, "term")
        j1 == NextWhere(doc, j0, "nonterm")
        j2 == NextWhere(doc, j1, "nonspace")
    IN  IF j0 >= Len(doc) THEN <<Slice(doc, piece_start, Len(doc))>>
        ELSE IF j2 > j1
        THEN <<Slice(doc, piece_start, j0)>> \o ReSplitFrom(doc, j2, j2)
        ELSE ReSplitFrom(doc, piece_start, j1)

\* [s.strip() for s in sentences if s.strip()]
RECURSIVE StripNonEmpty(_)
StripNonEmpty(pieces) ==
    IF pieces = <<>> THEN <<>>
    ELSE (IF Strip(pieces[1]) # <<>> THEN <<Strip(pieces[1])>> ELSE <<>>)
            \o StripNonEmpty(Tail(pieces))

\* the sentences of _fallback_chunking, with their dummy positions
FallbackSentences(doc) ==
    LET strs == StripNonEmpty(ReSplitFrom(doc, 0, 0))
    IN  [k \in 1..Len(strs) |-> <<strs[k], 0, 0>>]

FallbackOverlap == 50

ChunkTexts(chunks) == [k \in 1..Len(chunks) |-> chunks[k].text]

\* no chunk_text call is modelled: the chunker and the call stand still
NoCall ==
    /\ chunker = [n \in Inst |-> NewChunker("regex")]
    /\ spacy_ok = FALSE
    /\ nltk_ok = FALSE
    /\ nltk_failing = {}
    /\ loads = [n \in Inst |-> <<>>]
    /\ last_get = [n \in Inst |-> "none"]
    /\ text = <<>>
    /\ pc = "off"
    /\ result = <<>>
    /\ fx = FixedIdle

(***************************************************************************)
(* Python floats (IEEE-754 binary64) as analyze uses them.  A float is a   *)
(* sign and a magnitude; the magnitude is a fixed-point binary number kept *)
(* as four limbs of LimbBits bits, least significant first, the first     *)
(* three limbs holding the fraction and the last one the integer part.     *)
(* Every operation computes the exact result and rounds it to DblMantissa  *)
(* significant bits, ties to even.                                         *)
(***************************************************************************)
LimbBits == 20

DblMantissa == 53

RECURSIVE Pow2(_)
Pow2(k) == IF k = 0 THEN 1 ELSE 2 * Pow2(k - 1)

LimbBase == Pow2(LimbBits)

MagZero == <<0, 0, 0, 0>>

\* the limbs of the sums s[k] (each below 2 * LimbBase), carries propagated
Carried(s) ==
    LET t1 == s[1]
        t2 == s[2] + t1 \div LimbBase
        t3 == s[3] + t2 \div LimbBase
        t4 == s[4] + t3 \div LimbBase
    IN  <<t1 % LimbBase, t2 % LimbBase, t3 % LimbBase, t4>>

AddMag(a, b) == Carried([k \in 1..4 |-> a[k] + b[k]])

\* a - b for a >= b
SubMag(a, b) ==
    LET d1 == a[1] - b[1]
        d2 == a[2] - b[2] - (IF d1 < 0 THEN 1 ELSE 0)
        d3 == a[3] - b[3] - (IF d2 < 0 THEN 1 ELSE 0)
        d4 == a[4] - b[4] - (IF d3 < 0 THEN 1 ELSE 0)
    IN  <<(d1 + LimbBase) % LimbBase, (d2 + LimbBase) % LimbBase,
          (d3 + LimbBase) % LimbBase, d4>>

GeqMag(a, b) ==
    IF a[4] # b[4] THEN a[4] > b[4]
    ELSE IF a[3] # b[3] THEN a[3] > b[3]
    ELSE IF a[2] # b[2] THEN a[2] > b[2]
    ELSE a[1] >= b[1]

\* a * n for a natural number n, exactly
MulMag(a, n) ==
    LET t1 == a[1] * n
        t2 == a[2] * n + t1 \div LimbBase
        t3 == a[3] * n + t2 \div LimbBase
        t4 == a[4] * n + t3 \div LimbBase
    IN  <<t1 % LimbBase, t2 % LimbBase, t3 % LimbBase, t4>>

\* the number of bits of a natural number
BitLen(v) ==
    IF v = 0 THEN 0
    ELSE CHOOSE j \in 1..30 : Pow2(j - 1) <= v /\ v < Pow2(j)

\* the number of bits of a magnitude: the position of its highest set bit
TopBit(a) ==
    IF a[4] # 0 THEN 3 * LimbBits + BitLen(a[4])
    ELSE IF a[3] # 0 THEN 2 * LimbBits + BitLen(a[3])
    ELSE IF a[2] # 0 THEN LimbBits + BitLen(a[2])
    ELSE BitLen(a[1])

\* bit p of a magnitude, p = 0 the least significant
BitOf(a, p) == (a[p \div LimbBits + 1] \div Pow2(p % LimbBits)) % 2

\* a with its cut lowest bits cleared
ClearLow(a, cut) ==
    [k \in 1..4 |->
        IF k * LimbBits <= cut THEN 0
        ELSE IF (k - 1) * LimbBits >= cut THEN a[k]
        ELSE a[k] - (a[k] % Pow2(cut - (k - 1) * LimbBits))]

MagBit(p) == [k \in 1..4 |-> IF k = p \div LimbBits + 1 THEN Pow2(p % LimbBits) ELSE 0]

\* round to nearest, ties to even; sticky: the exact value has more set
\* bits below the lowest limb
RoundMag(a, sticky) ==
    LET cut == TopBit(a) - DblMantissa
    IN  IF cut <= 0 THEN a
        ELSE LET rest == sticky \/ \E p \in 0..(cut - 2) : BitOf(a, p) = 1
             IN  IF BitOf(a, cut - 1) = 1 /\ (rest \/ BitOf(a, cut) = 1)
                 THEN AddMag(ClearLow(a, cut), MagBit(cut))
                 ELSE ClearLow(a, cut)

MagOfInt(n) == <<0, 0, 0, n>>

IntOfMag(a) == a[4]

\* the float a decimal literal of t tenths denotes (0.4: t = 4): the
\* limbs of t/10 by long division, then rounded
DblLiteral(t) ==
    LET r3 == (t % 10) * LimbBase
        r2 == (r3 % 10) * LimbBase
        r1 == (r2 % 10) * LimbBase
    IN  [neg |-> FALSE,
         mag |-> RoundMag(<<r1 \div 10, r2 \div 10, r3 \div 10, t \div 10>>,
                          r1 % 10 # 0)]

DblOfInt(n) == [neg |-> n < 0, mag |-> MagOfInt(IF n < 0 THEN 0 - n ELSE n)]

DblNeg(x) == [x EXCEPT !.neg = ~x.neg]

\* x + y
DblAdd(x, y) ==
    IF x.neg = y.neg
    THEN [neg |-> x.neg, mag |-> RoundMag(AddMag(x.mag, y.mag), FALSE)]
    ELSE IF GeqMag(x.mag, y.mag)
    THEN [neg |-> x.neg /\ x.mag # y.mag,
          mag |-> RoundMag(SubMag(x.mag, y.mag), FALSE)]
    ELSE [neg |-> y.neg, mag |-> RoundMag(SubMag(y.mag, x.mag), FALSE)]

\* x * n for an int n
DblMulInt(x, n) ==
    [neg |-> x.neg # (n < 0),
     mag |-> RoundMag(MulMag(x.mag, IF n < 0 THEN 0 - n ELSE n), FALSE)]

\* x >= y
DblGeq(x, y) ==
    IF x.neg /\ ~y.neg THEN x.mag = MagZero /\ y.mag = MagZero
    ELSE IF ~x.neg /\ y.neg THEN TRUE
    ELSE IF x.neg THEN GeqMag(y.mag, x.mag)
    ELSE GeqMag(x.mag, y.mag)

\* max(a, b) and min(a, b) of Python: the first argument unless the second
\* is strictly greater (smaller)
DblMax(a, b) == IF DblGeq(a, b) THEN a ELSE b

DblMin(a, b) == IF DblGeq(b, a) THEN a ELSE b

\* int(x): truncation towards zero
DblInt(x) == IF x.neg THEN 0 - IntOfMag(x.mag) ELSE IntOfMag(x.mag)

\* round(x, 2) for x >= 0, in hundredths: the nearest multiple of 0.01 to
\* the exact value of x, ties to even
DblRound2(x) ==
    LET h == MulMag(x.mag, 100)
        whole == IntOfMag(h)
        half == BitOf(h, 3 * LimbBits - 1) = 1
        below == \E p \in 0..(3 * LimbBits - 2) : BitOf(h, p) = 1
    IN  IF half /\ (below \/ whole % 2 = 1) THEN whole + 1 ELSE whole

(***************************************************************************)
(* Query analysis and expansion (src/chatvid/retrieval.py).                *)
(***************************************************************************)
UpperCase ==
    <<"A", "B", "C", "D", "E", "F", "G", "H", "I", "J", "K", "L", "M",
      "N", "O", "P", "Q", "R", "S", "T", "U", "V", "W", "X", "Y", "Z">>

LowerCase ==
    <<"a", "b", "c", "d", "e", "f", "g", "h", "i", "j", "k", "l", "m",
      "n", "o", "p", "q", "r", "s", "t", "u", "v", "w", "x", "y", "z">>

\* c.isupper()
IsUpper(c) == \E k \in 1..Len(UpperCase) : UpperCase[k] = c

IsLower(c) == \E k \in 1..Len(LowerCase) : LowerCase[k] = c

LowerChar(c) ==
    IF IsUpper(c) THEN LowerCase[CHOOSE k \in 1..Len(UpperCase) : UpperCase[k] = c]
    ELSE c

UpperChar(c) ==
    IF IsLower(c) THEN UpperCase[CHOOSE k \in 1..Len(LowerCase) : LowerCase[k] = c]
    ELSE c

\* str.lower()
Lower(s) == [k \in 1..Len(s) |-> LowerChar(s[k])]

\* str.capitalize()
Capitalize(s) ==
    [k \in 1..Len(s) |-> IF k = 1 THEN UpperChar(s[k]) ELSE LowerChar(s[k])]

\* sub in s
IsSubstring(sub, s) ==
    \E p \in 0..(Len(s) - Len(sub)) : SubSeq(s, p + 1, p + Len(sub)) = sub

\* re.sub(key, synonym, s) for a pattern of plain letters: every
\* non-overlapping occurrence from the left, from position p on
RECURSIVE ReplaceFrom(_, _, _, _)
ReplaceFrom(s, key, synonym, p) ==
    IF p + Len(key) > Len(s) THEN SubSeq(s, p + 1, Len(s))
    ELSE IF SubSeq(s, p + 1, p + Len(key)) = key
    THEN synonym \o ReplaceFrom(s, key, synonym, p + Len(key))
    ELSE <<s[p + 1]>> \o ReplaceFrom(s, key, synonym, p + 1)

BROAD_KEYWORDS ==
    <<<<"w", "h", "a", "t">>, <<"h", "o", "w">>, <<"w", "h", "y">>,
      <<"e", "x", "p", "l", "a", "i", "n">>,
      <<"d", "e", "s", "c", "r", "i", "b", "e">>,
      <<"d", "i", "s", "c", "u", "s", "s">>,
      <<"o", "v", "e", "r", "v", "i", "e", "w">>,
      <<"s", "u", "m", "m", "a", "r", "y">>, <<"a", "l", "l">>,
      <<"a", "n", "y">>,
      <<"e", "v", "e", "r", "y", "t", "h", "i", "n", "g">>,
      <<"c", "o", "m", "p", "r", "e", "h", "e", "n", "s", "i", "v", "e">>,
      <<"t", "e", "l", "l", " ", "m", "e", " ", "a", "b", "o", "u", "t">>,
      <<"w", "h", "a", "t", " ", "a", "r", "e">>,
      <<"h", "o", "w", " ", "d", "o">>, <<"w", "h", "y", " ", "d", "o">>,
      <<"e", "x", "p", "l", "a", "i", "n", " ", "h", "o", "w">>>>

SPECIFIC_KEYWORDS ==
    <<<<"w", "h", "e", "n">>, <<"w", "h", "e", "r", "e">>,
      <<"w", "h", "o">>, <<"w", "h", "i", "c", "h">>,
      <<"d", "o", "e", "s">>, <<"i", "s">>, <<"c", "a", "n">>,
      <<"w", "i", "l", "l">>, <<"h", "o", "w", " ", "m", "a", "n", "y">>,
      <<"h", "o", "w", " ", "m", "u", "c", "h">>,
      <<"w", "h", "a", "t", " ", "i", "s">>, <<"n", "a", "m", "e">>,
      <<"d", "e", "f", "i", "n", "e">>>>

conjunctions ==
    <<<<" ", "a", "n", "d", " ">>, <<" ", "o", "r", " ">>, <<",", " ">>>>

\* SEMANTIC_VARIANTS in the order of the dict: the keys, and the synonyms of
\* each key
VariantKeys ==
    <<<<"c", "h", "a", "l", "l", "e", "n", "g", "e">>,
      <<"s", "o", "l", "u", "t", "i", "o", "n">>,
      <<"b", "e", "n", "e", "f", "i", "t">>,
      <<"d", "r", "a", "w", "b", "a", "c", "k">>, <<"c", "o", "s", "t">>,
      <<"m", "e", "t", "h", "o", "d">>, <<"r", "e", "s", "u", "l", "t">>,
      <<"r", "e", "a", "s", "o", "n">>>>

VariantSynonyms ==
    <<<<<<"p", "r", "o", "b", "l", "e", "m">>, <<"i", "s", "s", "u", "e">>,
        <<"o", "b", "s", "t", "a", "c", "l", "e">>,
        <<"d", "i", "f", "f", "i", "c", "u", "l", "t", "y">>,
        <<"r", "i", "s", "k">>, <<"c", "o", "n", "c", "e", "r", "n">>>>,
      <<<<"f", "i", "x">>,
        <<"r", "e", "s", "o", "l", "u", "t", "i", "o", "n">>,
        <<"a", "n", "s", "w", "e", "r">>,
        <<"a", "p", "p", "r", "o", "a", "c", "h">>,
        <<"r", "e", "m", "e", "d", "y">>,
        <<"w", "o", "r", "k", "a", "r", "o", "u", "n", "d">>>>,
      <<<<"a", "d", "v", "a", "n", "t", "a", "g", "e">>, <<"p", "r", "o">>,
        <<"p", "o", "s", "i", "t", "i", "v", "e">>, <<"g", "a", "i", "n">>,
        <<"v", "a", "l", "u", "e">>>>,
      <<<<"d", "i", "s", "a", "d", "v", "a", "n", "t", "a", "g", "e">>,
        <<"c", "o", "n">>, <<"n", "e", "g", "a", "t", "i", "v", "e">>,
        <<"d", "o", "w", "n", "s", "i", "d", "e">>,
        <<"l", "i", "m", "i", "t", "a", "t", "i", "o", "n">>>>,
      <<<<"b", "u", "d", "g", "e", "t">>,
        <<"e", "x", "p", "e", "n", "s", "e">>, <<"p", "r", "i", "c", "e">>,
        <<"f", "u", "n", "d", "i", "n", "g">>,
        <<"i", "n", "v", "e", "s", "t", "m", "e", "n", "t">>>>,
      <<<<"a", "p", "p", "r", "o", "a", "c", "h">>,
        <<"t", "e", "c", "h", "n", "i", "q", "u", "e">>, <<"w", "a", "y">>,
        <<"p", "r", "o", "c", "e", "s", "s">>,
        <<"p", "r", "o", "c", "e", "d", "u", "r", "e">>>>,
      <<<<"o", "u", "t", "c", "o", "m", "e">>,
        <<"c", "o", "n", "s", "e", "q", "u", "e", "n", "c", "e">>,
        <<"e", "f", "f", "e", "c", "t">>, <<"i", "m", "p", "a", "c", "t">>,
        <<"f", "i", "n", "d", "i", "n", "g">>>>,
      <<<<"c", "a", "u", "s", "e">>, <<"f", "a", "c", "t", "o", "r">>,
        <<"r", "a", "t", "i", "o", "n", "a", "l", "e">>,
        <<"e", "x", "p", "l", "a", "n", "a", "t", "i", "o", "n">>,
        <<"m", "o", "t", "i", "v", "a", "t", "i", "o", "n">>>>>>

\* _check_keywords
check_keywords(q, keywords) ==
    \E k \in 1..Len(keywords) : IsSubstring(keywords[k], q)

\* _has_multiple_subjects
has_multiple_subjects(q) ==
    \E k \in 1..Len(conjunctions) : IsSubstring(conjunctions[k], q)

\* the list reasons of analyze
Reasons(has_broad_keyword, has_specific_keyword, has_multiple, is_long_query) ==
    (IF has_broad_keyword THEN <<"broad keyword detected">> ELSE <<>>)
        \o (IF has_specific_keyword THEN <<"specific keyword detected">> ELSE <<>>)
        \o (IF has_multiple THEN <<"multiple subjects">> ELSE <<>>)
        \o (IF is_long_query THEN <<"long query">> ELSE <<>>)

\* ScoreOf with the specific-keyword reduction applied also when a broad
\* keyword matched
ScoreOf_SpecificAlways(has_broad_keyword, has_specific_keyword, has_multiple, is_long_query) ==
    LET c0 == DblLiteral(0)
        c1 == IF has_broad_keyword THEN DblAdd(c0, DblLiteral(4)) ELSE c0
        c2 == IF has_specific_keyword
              THEN DblAdd(c1, DblNeg(DblLiteral(2))) ELSE c1
        c3 == IF has_multiple THEN DblAdd(c2, DblLiteral(3)) ELSE c2
        c4 == IF is_long_query THEN DblAdd(c3, DblLiteral(2)) ELSE c3
    IN  DblMax(DblLiteral(0), DblMin(DblLiteral(10), c4))

\* ScoreOf with a long query adding 0.3 instead of 0.2
ScoreOf_LongAddsMore(has_broad_keyword, has_specific_keyword, has_multiple, is_long_query) ==
    LET c0 == DblLiteral(0)
        c1 == IF has_broad_keyword THEN DblAdd(c0, DblLiteral(4)) ELSE c0
        c2 == IF has_specific_keyword /\ ~has_broad_keyword
              THEN DblAdd(c1, DblNeg(DblLiteral(2))) ELSE c1
        c3 == IF has_multiple THEN DblAdd(c2, DblLiteral(3)) ELSE c2
        c4 == IF is_long_query THEN DblAdd(c3, DblLiteral(3)) ELSE c3
    IN  DblMax(DblLiteral(0), DblMin(DblLiteral(10), c4))

\* the float complexity_score before and after the clamp
ScoreOf(has_broad_keyword, has_specific_keyword, has_multiple, is_long_query) ==
    LET c0 == DblLiteral(0)
        c1 == IF has_broad_keyword THEN DblAdd(c0, DblLiteral(4)) ELSE c0
        c2 == IF has_specific_keyword /\ ~has_broad_keyword
              THEN DblAdd(c1, DblNeg(DblLiteral(2))) ELSE c1
        c3 == IF has_multiple THEN DblAdd(c2, DblLiteral(3)) ELSE c2
        c4 == IF is_long_query THEN DblAdd(c3, DblLiteral(2)) ELSE c3
    IN  DblMax(DblLiteral(0), DblMin(DblLiteral(10), c4))

\* the returned dictionary without its reasoning for a score
Recommend(mn, mx, complexity_score) ==
    LET is_broad == DblGeq(complexity_score, DblLiteral(4))
        top_k_range == mx - mn
        recommended_top_k ==
            DblInt(DblAdd(DblOfInt(mn), DblMulInt(complexity_score, top_k_range)))
    IN  [top_k |-> Max2(mn, Min2(mx, recommended_top_k)),
         is_broad |-> is_broad,
         complexity_score |-> DblRound2(complexity_score),
         query_type |-> IF is_broad THEN "broad" ELSE "specific"]

\* QueryComplexityAnalyzer.analyze.  complexity_score is given in
\* hundredths (40 for 0.4); reasoning is given by its parts: the question
\* type that starts it and the reasons joined in its parentheses.
Analyze(mn, mx, q) ==
    LET query_lower == Strip(Lower(q))
        word_count == Len(SplitWs(q))
        has_broad_keyword == check_keywords(query_lower, BROAD_KEYWORDS)
        has_specific_keyword == check_keywords(query_lower, SPECIFIC_KEYWORDS)
        has_multiple == has_multiple_subjects(query_lower)
        is_long_query == word_count > 8
        r == Recommend(mn, mx, ScoreOf(has_broad_keyword, has_specific_keyword,
                                       has_multiple, is_long_query))
    IN  [top_k |-> r.top_k,
         is_broad |-> r.is_broad,
         complexity_score |-> r.complexity_score,
         query_type |-> r.query_type,
         reasoning |-> [question |-> IF r.is_broad THEN "Broad question"
                                     ELSE "Specific question",
                        reasons |-> Reasons(has_broad_keyword, has_specific_keyword,
                                            has_multiple, is_long_query)]]

\* the loop over synonyms[:max_variants - len(variants)] from index j on;
\* st holds variants and whether the function has returned
RECURSIVE ExpandSynonyms(_, _, _, _, _, _)
ExpandSynonyms(st, maxv, q, key, synonyms, j) ==
    IF st.returned \/ j > Len(synonyms) THEN st
    ELSE LET variant == ReplaceFrom(Lower(q), key, synonyms[j], 0)
             seen == \E k \in 1..Len(st.variants) : Lower(st.variants[k]) = variant
             added == IF seen THEN st.variants
                      ELSE Append(st.variants,
                                  IF IsUpper(q[1]) THEN Capitalize(variant)
                                  ELSE variant)
         IN  ExpandSynonyms([variants |-> added, returned |-> Len(added) >= maxv],
                            maxv, q, key, synonyms, j + 1)

\* the loop over SEMANTIC_VARIANTS.items() from key number k on
RECURSIVE ExpandKeys(_, _, _, _)
ExpandKeys(st, maxv, q, k) ==
    IF st.returned \/ k > Len(VariantKeys) THEN st
    ELSE IF IsSubstring(VariantKeys[k], Lower(q))
    THEN ExpandKeys(
            ExpandSynonyms(st, maxv, q, VariantKeys[k],
                           PySlice(VariantSynonyms[k], 0, maxv - Len(st.variants)),
                           1),
            maxv, q, k + 1)
    ELSE ExpandKeys(st, maxv, q, k + 1)

\* _expand_keyword with no limit on the number of variants
expand_keyword_Unlimited(maxv, q) ==
    LET longest == CHOOSE m \in 0..100 :
                      /\ \A k \in 1..Len(VariantKeys) : Len(VariantSynonyms[k]) <= m
                      /\ \E k \in 1..Len(VariantKeys) : Len(VariantSynonyms[k]) = m
        limit == 2 + Len(VariantKeys) * longest
    IN  ExpandKeys([variants |-> <<q>>, returned |-> FALSE], limit, q, 1).variants

\* QueryExpander._expand_keyword
expand_keyword(maxv, q) ==
    ExpandKeys([variants |-> <<q>>, returned |-> FALSE], maxv, q, 1).variants

\* expand with the method 'llm' returning the query alone
expand_LlmUnexpanded(maxv, q, how) ==
    IF how = "keyword" THEN expand_keyword(maxv, q) ELSE <<q>>

\* QueryExpander.expand
expand(maxv, q, how) ==
    IF how = "keyword" THEN expand_keyword(maxv, q)
    ELSE IF how = "llm" THEN expand_keyword(maxv, q)
    ELSE <<q>>

NoAnalysis == [top_k |-> 0, is_broad |-> FALSE, complexity_score |-> 0,
               query_type |-> "none",
               reasoning |-> [question |-> "none", reasons |-> <<>>]]

\* no analyze or expand call is modelled
NoQuery ==
    /\ min_top_k = 0
    /\ max_top_k = 0
    /\ max_variants = 0
    /\ query = <<>>
    /\ method = "none"
    /\ analysis = NoAnalysis
    /\ variants = <<>>
    /\ rpc = "off"

(***************************************************************************)
(* SpecGroup: one run of _group_sentences, one loop iteration per step,    *)
(* for every configuration and every sentence list within the bounds.      *)
(***************************************************************************)
Rep(c, n) == [k \in 1..n |-> c]

\* sentence k of a document whose sentences have the lengths lens and are
\* one character apart
RECURSIVE StartOf(_, _)
StartOf(lens, k) == IF k = 1 THEN 0 ELSE StartOf(lens, k - 1) + lens[k - 1] + 1

MkSentences(lens) ==
    [k \in 1..Len(lens) |->
        <<Rep("a", lens[k]), StartOf(lens, k), StartOf(lens, k) + lens[k]>>]

SentenceLists ==
    {MkSentences(lens) :
        lens \in UNION {[1..n -> 1..MaxSentLen] : n \in 0..MaxSents}}

ConfigInit ==
    /\ config = NoConfig
    /\ min_chunk_size \in 1..MaxSize
    /\ max_chunk_size \in min_chunk_size..MaxSize
    /\ target_chunk_size \in 1..MaxSize
    /\ overlap_sentences \in OverlapChoices

InitGroup ==
    /\ ConfigInit
    /\ sentences \in SentenceLists
    /\ grp = [GroupStart EXCEPT !.pc = "start"]
    /\ split_in = <<>>
    /\ split_out = NotCalled
    /\ NoCall
    /\ NoQuery

\* if not sentences: return []
GroupEnter ==
    /\ grp.pc = "start"
    /\ grp' = IF sentences = <<>> THEN [GroupStart EXCEPT !.pc = "done"]
              ELSE GroupStart
    /\ UNCHANGED <<retrVars, cfgVars, sentences, splitVars, envVars, backendVars, callVars, fx>>

GroupStep ==
    /\ grp.pc = "loop"
    /\ grp.i < Len(sentences)
    /\ grp' = GroupIter(sentences, grp)
    /\ UNCHANGED <<retrVars, cfgVars, sentences, splitVars, envVars, backendVars, callVars, fx>>

GroupFinish ==
    /\ grp.pc = "loop"
    /\ grp.i >= Len(sentences)
    /\ grp' = GroupFinal(grp)
    /\ UNCHANGED <<retrVars, cfgVars, sentences, splitVars, envVars, backendVars, callVars, fx>>

NextGroup == GroupEnter \/ GroupStep \/ GroupFinish

SpecGroup == InitGroup /\ [][NextGroup]_vars

\* the loop is run to its end: a step that can be taken is taken
SpecGroupLive == SpecGroup /\ WF_vars(NextGroup)

(***************************************************************************)
(* SpecSplit: one call of _split_oversized_sentences on sentence lists     *)
(* drawn from all stripped strings up to MaxSplitLen characters and from   *)
(* sentences built of up to MaxWords words, for limits on both sides of    *)
(* WordsDivisor.                                                           *)
(***************************************************************************)
SplitChars == {"a", " ", ";", ":", ","}

Strings(chars, n) == UNION {[1..k -> chars] : k \in 0..n}

Stripped(set) == {t \in set : t # <<>> /\ Strip(t) = t}

WordLens == {1, 6, 11}

WordSeps == {<<" ">>, <<";">>, <<",", " ">>}

\* the sentences of n words: word, separator, word, ...
RECURSIVE Worded(_)
Worded(n) ==
    IF n = 1 THEN {Rep("a", l) : l \in WordLens}
    ELSE {w \o sep \o Rep("a", l) : w \in Worded(n - 1), sep \in WordSeps,
                                    l \in WordLens}

SplitTexts ==
    Stripped(Strings(SplitChars, MaxSplitLen)) \cup UNION {Worded(n) : n \in 1..MaxWords}

SplitMaxChoices == {1, 2, 3, 5, 10, 12, 20}

Sentence(txt, start) == <<txt, start, start + Len(txt)>>

\* one sentence at offset 0 or 2, or one sentence followed by a short one
SplitLists ==
    {<<Sentence(t, st)>> : t \in SplitTexts, st \in {0, 2}}
        \cup {<<Sentence(t, 0), Sentence(<<"a", "a">>, Len(t) + 1)>> :
                t \in SplitTexts}

InitSplit ==
    /\ config = NoConfig
    /\ min_chunk_size = 1
    /\ max_chunk_size \in SplitMaxChoices
    /\ target_chunk_size = max_chunk_size
    /\ overlap_sentences = 1
    /\ split_in \in SplitLists
    /\ split_out = NotCalled
    /\ sentences = <<>>
    /\ grp = GroupIdle
    /\ NoCall
    /\ NoQuery

SplitCall ==
    /\ split_out.pc = "idle"
    /\ LET r == split_oversized_sentences(split_in)
       IN  split_out' = IF r.raised THEN [pc |-> "raised", result |-> <<>>]
                        ELSE [pc |-> "returned", result |-> r.result]
    /\ UNCHANGED <<retrVars, cfgVars, grpVars, split_in, envVars, backendVars, callVars, fx>>

NextSplit == SplitCall

SpecSplit == InitSplit /\ [][NextSplit]_vars

(***************************************************************************)
(* Spec: one chunk_text call on a SemanticChunker (instance 1), step by    *)
(* step: entry, extraction, oversized-sentence splitting, grouping or      *)
(* fallback chunking, the FixedChunker loop of the last resort.  Documents *)
(* are all strings up to MaxTextLen characters under every backend mode    *)
(* and library availability, and, for batched extraction, the longer       *)
(* documents under the NLTK backend with any set of failing batches.       *)
(***************************************************************************)
TextChars == {"a", " ", ".", ";"}

BatchTextChars == {"a", " ", "."}

PipeSizes == {<<1, 2>>, <<2, 3>>}

PipeTargets == {1, 3, FallbackOverlap + 1}

\* backend mode, spaCy available, NLTK available, sent_tokenize raises
BackendCases ==
    {<<"regex", FALSE, FALSE, FALSE>>, <<"other", FALSE, FALSE, FALSE>>,
     <<"auto", FALSE, FALSE, FALSE>>, <<"auto", TRUE, TRUE, FALSE>>,
     <<"auto", FALSE, TRUE, FALSE>>,
     <<"spacy", TRUE, FALSE, FALSE>>, <<"spacy", FALSE, TRUE, FALSE>>,
     <<"spacy", TRUE, FALSE, TRUE>>, <<"auto", TRUE, TRUE, TRUE>>,
     <<"nltk", FALSE, TRUE, FALSE>>, <<"nltk", FALSE, TRUE, TRUE>>,
     <<"nltk", TRUE, FALSE, FALSE>>}

InitShort ==
    /\ \E sz \in PipeSizes : min_chunk_size = sz[1] /\ max_chunk_size = sz[2]
    /\ target_chunk_size \in PipeTargets
    /\ overlap_sentences \in {0, 1}
    /\ text \in Strings(TextChars, MaxTextLen)
    /\ \E b \in BackendCases :
          /\ chunker = [n \in Inst |-> NewChunker(b[1])]
          /\ spacy_ok = b[2]
          /\ nltk_ok = b[3]
          /\ nltk_failing = IF b[4] THEN {0} ELSE {}

InitBatched ==
    /\ min_chunk_size = 1
    /\ max_chunk_size = 3
    /\ target_chunk_size \in {3, FallbackOverlap + 1}
    /\ overlap_sentences = 1
    /\ text \in {t \in Strings(BatchTextChars, MaxBatchTextLen) : Len(t) > BatchChars}
    /\ chunker = [n \in Inst |-> NewChunker("nltk")]
    /\ spacy_ok = FALSE
    /\ nltk_ok = TRUE
    /\ nltk_failing \in SUBSET (0..((MaxBatchTextLen - 1) \div BatchChars))

Init ==
    /\ InitShort \/ InitBatched
    /\ config = NoConfig
    /\ loads = [n \in Inst |-> <<>>]
    /\ last_get = [n \in Inst |-> "none"]
    /\ pc = "idle"
    /\ result = <<>>
    /\ fx = FixedIdle
    /\ sentences = <<>>
    /\ grp = GroupIdle
    /\ split_in = <<>>
    /\ split_out = NotCalled
    /\ NoQuery

\* if not text or len(text.strip()) == 0: return []
ChunkTextEnter ==
    /\ pc = "idle"
    /\ IF text = <<>> \/ Len(Strip(text)) = 0
       THEN pc' = "returned" /\ result' = <<>>
       ELSE pc' = "extract" /\ result' = result
    /\ UNCHANGED <<retrVars, cfgVars, grpVars, splitVars, envVars, backendVars, text, fx>>

\* sentences = self._extract_sentences(text)
ExtractSentences ==
    /\ pc = "extract"
    /\ LET r == extract_sentences(chunker[1], text, spacy_ok, nltk_ok, nltk_failing)
       IN  /\ chunker' = [chunker EXCEPT ![1] = r.chunker]
           /\ loads' = [loads EXCEPT ![1] = @ \o r.loaded]
           /\ last_get' = [last_get EXCEPT ![1] = IF r.raised THEN "raised" ELSE "ok"]
           /\ sentences' = r.sentences
           /\ pc' = IF r.sentences # <<>> THEN "split" ELSE "fallback"
    /\ UNCHANGED <<retrVars, cfgVars, grp, splitVars, envVars, text, result, fx>>

\* sentences = self._split_oversized_sentences(sentences); its exception
\* is not caught by chunk_text
SplitOversized ==
    /\ pc = "split"
    /\ LET r == split_oversized_sentences(sentences)
       IN  IF r.raised
           THEN pc' = "raised" /\ sentences' = sentences
           ELSE /\ sentences' = r.result
                /\ pc' = IF r.result # <<>> THEN "group" ELSE "fallback"
    /\ UNCHANGED <<retrVars, cfgVars, grp, splitVars, envVars, backendVars, text, result, fx>>

\* chunks = self._group_sentences(sentences); return their texts
GroupSentences ==
    /\ pc = "group"
    /\ LET g == group_sentences(sentences)
       IN  grp' = g /\ result' = ChunkTexts(g.chunks)
    /\ pc' = "returned"
    /\ UNCHANGED <<retrVars, cfgVars, sentences, splitVars, envVars, backendVars, text, fx>>

\* return self._fallback_chunking(text)
FallbackChunking ==
    /\ pc = "fallback"
    /\ LET sentence_tuples == FallbackSentences(text)
       IN  IF sentence_tuples = <<>>
           THEN /\ fx' = FixedStart(target_chunk_size, FallbackOverlap, text)
                /\ pc' = "fixed"
                /\ UNCHANGED <<sentences, grp, result>>
           ELSE /\ sentences' = sentence_tuples
                /\ LET g == group_sentences(sentence_tuples)
                   IN  grp' = g /\ result' = ChunkTexts(g.chunks)
                /\ pc' = "returned"
                /\ fx' = fx
    /\ UNCHANGED <<retrVars, cfgVars, splitVars, envVars, backendVars, text>>

\* one iteration of FixedChunker's loop; of a loop that makes no progress
\* (a stride <= 0), the first MaxFixedSteps iterations are explored
FixedStep ==
    /\ pc = "fixed"
    /\ fx.pc = "loop"
    /\ fx.start < Len(fx.text)
    /\ fx.chunk_size - fx.overlap > 0 \/ fx.steps < MaxFixedSteps
    /\ fx' = FixedIter(fx)
    /\ UNCHANGED <<retrVars, cfgVars, grpVars, splitVars, envVars, backendVars, callVars>>

\* the loop ends: return chunks
FixedReturn ==
    /\ pc = "fixed"
    /\ fx.pc = "returned" \/ fx.start >= Len(fx.text)
    /\ fx' = [fx EXCEPT !.pc = "returned"]
    /\ result' = fx.chunks
    /\ pc' = "returned"
    /\ UNCHANGED <<retrVars, cfgVars, grpVars, splitVars, envVars, backendVars, text>>

Next ==
    \/ ChunkTextEnter
    \/ ExtractSentences
    \/ SplitOversized
    \/ GroupSentences
    \/ FallbackChunking
    \/ FixedStep
    \/ FixedReturn

Spec == Init /\ [][Next]_vars

(***************************************************************************)
(* SpecBackend: _get_tokenizer calls on two SemanticChunker instances, as  *)
(* _extract_sentences makes one per chunk_text call and memvid_cli makes   *)
(* one after construction, while the libraries the loaders look for come   *)
(* and go between the calls.                                               *)
(***************************************************************************)
BackendModes == {"auto", "spacy", "nltk", "regex", "other"}

InitBackend ==
    /\ config = NoConfig
    /\ min_chunk_size = 1
    /\ max_chunk_size = 1
    /\ target_chunk_size = 1
    /\ overlap_sentences = 0
    /\ chunker \in [Inst -> {NewChunker(b) : b \in BackendModes}]
    /\ spacy_ok \in BOOLEAN
    /\ nltk_ok \in BOOLEAN
    /\ nltk_failing = {}
    /\ loads = [n \in Inst |-> <<>>]
    /\ last_get = [n \in Inst |-> "none"]
    /\ text = <<>>
    /\ pc = "off"
    /\ result = <<>>
    /\ fx = FixedIdle
    /\ sentences = <<>>
    /\ grp = GroupIdle
    /\ split_in = <<>>
    /\ split_out = NotCalled
    /\ NoQuery

\* tokenizer, backend = self._get_tokenizer() on instance n
GetTokenizerCall(n) ==
    /\ Len(loads[n]) < MaxLoads
    /\ LET r == GetTokenizer(chunker[n], spacy_ok, nltk_ok)
       IN  /\ chunker' = [chunker EXCEPT ![n] = r.chunker]
           /\ loads' = [loads EXCEPT ![n] = @ \o r.loaded]
           /\ last_get' = [last_get EXCEPT ![n] = IF r.raised THEN "raised" ELSE "ok"]
    /\ UNCHANGED <<retrVars, cfgVars, grpVars, splitVars, envVars, callVars, fx>>

\* spaCy or its model is installed or removed
SpacyChanges ==
    /\ spacy_ok' = ~spacy_ok
    /\ UNCHANGED <<retrVars, cfgVars, grpVars, splitVars, nltk_ok, nltk_failing,
                   backendVars, callVars, fx>>

\* NLTK or its punkt data is installed or removed
NltkChanges ==
    /\ nltk_ok' = ~nltk_ok
    /\ UNCHANGED <<retrVars, cfgVars, grpVars, splitVars, spacy_ok, nltk_failing,
                   backendVars, callVars, fx>>

NextBackend ==
    \/ \E n \in Inst : GetTokenizerCall(n)
    \/ SpacyChanges
    \/ NltkChanges

SpecBackend == InitBackend /\ [][NextBackend]_vars

(***************************************************************************)
(* SpecAnalyze: one QueryComplexityAnalyzer.analyze call, for the bounds   *)
(* the chat command can configure and queries of up to two words of a      *)
(* vocabulary that sets off every signal, alone and padded to a long       *)
(* query, bare and surrounded by spaces.                                   *)
(***************************************************************************)
\* no chunker is modelled
NoChunking ==
    /\ config = NoConfig
    /\ min_chunk_size = 1
    /\ max_chunk_size = 1
    /\ target_chunk_size = 1
    /\ overlap_sentences = 0
    /\ sentences = <<>>
    /\ grp = GroupIdle
    /\ split_in = <<>>
    /\ split_out = NotCalled
    /\ NoCall

QueryWords ==
    {<<"W", "h", "a", "t">>, <<"i", "s">>, <<"e", "x", "p", "l", "a", "i", "n">>,
     <<"t", "h", "i", "s">>, <<"a", "n", "d">>, <<"o", "r">>, <<"r", "e", "d", ",">>,
     <<"r", "e", "d", ",", "g", "r", "e", "e", "n">>, <<"c", "o", "s", "t">>,
     <<"x">>}

\* the queries of up to two words
Phrases(words) ==
    {<<>>} \cup words \cup {a \o <<" ">> \o b : a \in words, b \in words}

\* q followed by n more words
RECURSIVE Padded(_, _)
Padded(q, n) ==
    IF n = 0 THEN q
    ELSE Padded(IF q = <<>> THEN <<"x">> ELSE q \o <<" ", "x">>, n - 1)

ExampleQuery ==
    <<"W", "h", "a", "t", " ", "i", "s", " ", "t", "h", "e", " ",
      "c", "a", "p", "i", "t", "a", "l", " ", "o", "f", " ",
      "F", "r", "a", "n", "c", "e", "?">>

AnalyzeQueries ==
    {Padded(p, n) : p \in Phrases(QueryWords), n \in {0, MaxPad}}
        \cup {<<" ">> \o Padded(p, n) \o <<" ">> :
                p \in Phrases(QueryWords), n \in {0, MaxPad}}
        \cup {ExampleQuery}

DefaultMinTopK == 5

DefaultMaxTopK == 25

TopKPairs ==
    {<<mn, mn + d>> : mn \in 0..MaxMinTopK, d \in 0..MaxTopKRange}
        \cup {<<DefaultMinTopK, DefaultMaxTopK>>}

InitAnalyze ==
    /\ NoChunking
    /\ \E b \in TopKPairs : min_top_k = b[1] /\ max_top_k = b[2]
    /\ query \in AnalyzeQueries
    /\ analysis = NoAnalysis
    /\ max_variants = 0
    /\ method = "none"
    /\ variants = <<>>
    /\ rpc = "idle"

\* analysis = query_analyzer.analyze(query)
AnalyzeCall ==
    /\ rpc = "idle"
    /\ method = "none"
    /\ analysis' = Analyze(min_top_k, max_top_k, query)
    /\ rpc' = "returned"
    /\ UNCHANGED <<min_top_k, max_top_k, max_variants, query, method, variants>>
    /\ UNCHANGED <<cfgVars, grpVars, splitVars, envVars, backendVars, callVars, fx>>

NextAnalyze == AnalyzeCall

SpecAnalyze == InitAnalyze /\ [][NextAnalyze]_vars

(***************************************************************************)
(* SpecExpand: one QueryExpander.expand call, for every max_variants up to *)
(* MaxVariants, the methods 'keyword', 'llm' and another one, and queries  *)
(* of up to two words with and without keys of the synonym table.          *)
(***************************************************************************)
ExpandWords ==
    {<<"c", "o", "s", "t">>, <<"C", "o", "s", "t">>, <<"C", "O", "S", "T">>,
     <<"c", "o", "s", "t", "c", "o", "s", "t">>,
     <<"r", "e", "a", "s", "o", "n">>, <<"s", "o", "l", "u", "t", "i", "o", "n">>,
     <<"T", "h", "e">>, <<"x">>}

ExpandMethods == {"keyword", "llm", "semantic"}

InitExpand ==
    /\ NoChunking
    /\ min_top_k = 0
    /\ max_top_k = 0
    /\ analysis = NoAnalysis
    /\ max_variants \in 0..MaxVariants
    /\ query \in Phrases(ExpandWords)
    /\ method \in ExpandMethods
    /\ variants = <<>>
    /\ rpc = "idle"

\* queries = self.query_expander.expand(query, method=...)
ExpandCall ==
    /\ rpc = "idle"
    /\ method # "none"
    /\ variants' = expand(max_variants, query, method)
    /\ rpc' = "returned"
    /\ UNCHANGED <<min_top_k, max_top_k, max_variants, query, method, analysis>>
    /\ UNCHANGED <<cfgVars, grpVars, splitVars, envVars, backendVars, callVars, fx>>

NextExpand == ExpandCall

SpecExpand == InitExpand /\ [][NextExpand]_vars

(***************************************************************************)
(* SpecConfig: one construction of a ChunkingConfig, for every combination *)
(* of integer fields from -1 to MaxConfigValue and the strategies 'fixed',  *)
(* 'semantic' and another string.                                          *)
(***************************************************************************)
ConfigArgs ==
    [chunk_size : -1..MaxConfigValue, chunk_overlap : -1..MaxConfigValue,
     chunking_strategy : {"fixed", "semantic", "hybrid"},
     min_chunk_size : -1..MaxConfigValue, max_chunk_size : -1..MaxConfigValue,
     overlap_sentences : -1..1]

InitConfig ==
    /\ config \in {[pc |-> "call", args |-> a, object |-> <<>>] : a \in ConfigArgs}
    /\ min_chunk_size = 1
    /\ max_chunk_size = 1
    /\ target_chunk_size = 1
    /\ overlap_sentences = 0
    /\ sentences = <<>>
    /\ grp = GroupIdle
    /\ split_in = <<>>
    /\ split_out = NotCalled
    /\ NoCall
    /\ NoQuery

\* ChunkingConfig(...): the dataclass stores the fields, __post_init__
\* validates them; an exception leaves the caller without an object
ConstructConfig ==
    /\ config.pc = "call"
    /\ config' = IF post_init(config.args) = "ok"
                 THEN [config EXCEPT !.pc = "constructed", !.object = <<config.args>>]
                 ELSE [config EXCEPT !.pc = "raised"]
    /\ UNCHANGED <<min_chunk_size, max_chunk_size, target_chunk_size, overlap_sentences>>
    /\ UNCHANGED <<retrVars, grpVars, splitVars, envVars, backendVars, callVars, fx>>

NextConfig == ConstructConfig

SpecConfig == InitConfig /\ [][NextConfig]_vars

(***************************************************************************)
(* Claims about _group_sentences, checked under SpecGroup.                 *)
(***************************************************************************)
GroupDone == grp.pc = "done"

\* the position in the input of a sentence tuple (start offsets are distinct)
PosOf(s) == CHOOSE j \in 1..Len(sentences) : sentences[j] = s

\* run is a non-empty contiguous run of the input, in input order
IsRun(run) ==
    /\ run # <<>>
    /\ \E a \in 1..Len(sentences) :
          /\ a + Len(run) - 1 <= Len(sentences)
          /\ \A p \in 1..Len(run) : run[p] = sentences[a + p - 1]

SizesOrdered ==
    /\ min_chunk_size <= target_chunk_size
    /\ target_chunk_size <= max_chunk_size

\* C3 (as claimed): with min <= target <= max and no sentence longer than
\* max_chunk_size, every returned chunk but the last has a text of at most
\* max_chunk_size characters, joining spaces included.
C3_NonLastChunkWithinMax ==
    (GroupDone /\ SizesOrdered
        /\ \A j \in 1..Len(sentences) : Len(sentences[j][1]) <= max_chunk_size)
    => \A k \in 1..(Len(grp.chunks) - 1) :
          Len(grp.chunks[k].text) <= max_chunk_size

\* C5: _group_sentences drops no sentence and keeps order.  Every chunk is
\* the join of the sentences it was built from; these form a contiguous run
\* of the input (a merged final chunk: two such runs, one after the other);
\* the runs' first positions never decrease; every sentence consumed so far
\* is in a chunk or still in the buffer, so at the end every input sentence
\* is in a chunk; an empty input gives no chunk.
C5_NoSentenceDropped ==
    /\ Len(grp.made) = Len(grp.chunks)
    /\ \A k \in 1..Len(grp.chunks) :
          /\ grp.chunks[k].text = Join(Texts(grp.made[k].sents), <<" ">>)
          /\ grp.chunks[k].sentence_count = Len(grp.made[k].sents)
          /\ IF grp.made[k].at = "merged"
             THEN \E m \in 1..(Len(grp.made[k].sents) - 1) :
                     /\ IsRun(SubSeq(grp.made[k].sents, 1, m))
                     /\ IsRun(SubSeq(grp.made[k].sents, m + 1,
                                     Len(grp.made[k].sents)))
             ELSE IsRun(grp.made[k].sents)
    /\ \A k \in 1..(Len(grp.chunks) - 1) :
          PosOf(grp.made[k].sents[1]) <= PosOf(grp.made[k + 1].sents[1])
    /\ \A j \in 1..Len(sentences) :
          (j <= grp.i)
          => \/ \E k \in 1..Len(grp.made) : sentences[j] \in Range(grp.made[k].sents)
             \/ sentences[j] \in Range(grp.current_sentences)
    /\ GroupDone
       => /\ grp.i = Len(sentences)
          /\ \A j \in 1..Len(sentences) :
                \E k \in 1..Len(grp.made) : sentences[j] \in Range(grp.made[k].sents)
          /\ (sentences = <<>> => grp.chunks = <<>>)

\* C5 witness: a finished run over three or more sentences that returned
\* several chunks, the last one merged from a too-small remainder.
C5_Witness ==
    /\ GroupDone
    /\ Len(sentences) >= 3
    /\ Len(grp.chunks) >= 2
    /\ grp.made[Len(grp.made)].at = "merged"

\* chunk k+1 starts with the last overlap_sentences sentences of chunk k,
\* and the two share exactly that many sentences
OverlapCarried(k) ==
    /\ Len(grp.made[k + 1].sents) >= overlap_sentences
    /\ FirstN(grp.made[k + 1].sents, overlap_sentences)
          = LastN(grp.made[k].sents, overlap_sentences)
    /\ Cardinality(Range(grp.made[k].sents) \cap Range(grp.made[k + 1].sents))
          = overlap_sentences

\* C6 (as claimed): for consecutive returned chunks k, k+1 with k+1 not the
\* final chunk, if the buffer flushed as chunk k held at least
\* overlap_sentences sentences, chunk k+1 starts with exactly the last
\* overlap_sentences sentences of chunk k.
C6_OverlapAlways ==
    GroupDone
    => \A k \in 1..(Len(grp.chunks) - 2) :
          Len(grp.made[k].sents) >= overlap_sentences => OverlapCarried(k)

\* C6 (amended): the same, except after a chunk that was flushed as the
\* oversized overlap alone, after which the buffer is reset to empty.
C6_OverlapUnlessReset ==
    GroupDone
    => \A k \in 1..(Len(grp.chunks) - 2) :
          (Len(grp.made[k].sents) >= overlap_sentences
              /\ grp.made[k].at # "overlap")
          => OverlapCarried(k)

\* C6 witness: a finished run with overlap_sentences >= 1 in which a
\* non-final chunk follows a full-buffer flush and carries its overlap.
C6_Witness ==
    /\ GroupDone
    /\ overlap_sentences >= 1
    /\ \E k \in 1..(Len(grp.chunks) - 2) :
          /\ Len(grp.made[k].sents) > overlap_sentences
          /\ grp.made[k].at # "overlap"
          /\ Len(grp.made[k + 1].sents) > overlap_sentences
          /\ OverlapCarried(k)

\* the step that ends the scan of _group_sentences
ScanEnds == grp.pc = "loop" /\ grp.i >= Len(sentences) /\ grp'.pc = "done"

\* C11: after the scan a non-empty remaining buffer becomes its own last
\* chunk iff its joined text has at least min_chunk_size characters or no
\* chunk was emitted yet; otherwise it is merged into the previous chunk,
\* which becomes previous text + one space + remainder text with the same
\* start_char, the remainder's end_char and the sum of the sentence counts,
\* the number of chunks staying the same.  An empty buffer adds nothing.
C11_FinalRemainder ==
    [][ScanEnds =>
          LET rest == grp.current_sentences
              rest_text == Join(Texts(rest), <<" ">>)
              n == Len(grp.chunks)
          IN  IF rest = <<>> THEN grp'.chunks = grp.chunks
              ELSE IF Len(rest_text) >= min_chunk_size \/ n = 0
              THEN grp'.chunks =
                      Append(grp.chunks,
                             [text |-> rest_text, start_char |-> rest[1][2],
                              end_char |-> rest[Len(rest)][3],
                              sentence_count |-> Len(rest)])
              ELSE /\ Len(grp'.chunks) = n
                   /\ \A k \in 1..(n - 1) : grp'.chunks[k] = grp.chunks[k]
                   /\ grp'.chunks[n].text
                         = grp.chunks[n].text \o <<" ">> \o rest_text
                   /\ grp'.chunks[n].start_char = grp.chunks[n].start_char
                   /\ grp'.chunks[n].end_char = rest[Len(rest)][3]
                   /\ grp'.chunks[n].sentence_count
                         = grp.chunks[n].sentence_count + Len(rest)]_vars

\* C11 witness: a finished run whose too-small remainder was merged into
\* the previous chunk, which was itself flushed earlier in the scan.
C11_Witness ==
    /\ GroupDone
    /\ Len(grp.chunks) >= 1
    /\ grp.made[Len(grp.made)].at = "merged"
    /\ grp.current_sentences # <<>>
    /\ Len(Join(Texts(grp.current_sentences), <<" ">>)) < min_chunk_size
    /\ grp.chunks[Len(grp.chunks)].end_char
          = grp.current_sentences[Len(grp.current_sentences)][3]

\* C22: for min_chunk_size >= 1 and any overlap_sentences >= 0,
\* _group_sentences terminates: an iteration either appends the pending
\* sentence or flushes once or twice (the buffer, then the retained overlap
\* alone, which leaves the buffer empty) and leaves a buffer to which the
\* next iteration appends the pending sentence; the scan reaches the end.
C22_GroupTerminates ==
    /\ [][(grp.pc = "loop" /\ grp'.pc = "loop")
          => \/ grp'.i = grp.i + 1
             \/ /\ grp'.i = grp.i
                /\ Len(grp'.chunks) - Len(grp.chunks) \in {1, 2}
                /\ Len(grp'.chunks) - Len(grp.chunks) = 2
                   => grp'.current_sentences = <<>>
                /\ \/ grp'.current_size + Len(sentences[grp.i + 1][1])
                        <= max_chunk_size
                   \/ grp'.current_size < min_chunk_size]_vars
    /\ <>(grp.pc = "done")

\* C22 witness: the scan ended after a sentence longer than max_chunk_size
\* made the loop flush the buffer and then the retained overlap alone.
C22_Witness ==
    /\ GroupDone
    /\ \E k \in 1..(Len(grp.made) - 1) :
          /\ grp.made[k].at = "max"
          /\ grp.made[k + 1].at = "overlap"
    /\ \E j \in 1..Len(sentences) : Len(sentences[j][1]) > max_chunk_size

\* C23 (as claimed): min_chunk_size is a hard lower bound: for
\* 0 < min_chunk_size <= target_chunk_size <= max_chunk_size every chunk
\* _group_sentences returns has len(chunk.text) >= min_chunk_size, unless
\* the result is a single chunk.
C23_MinIsHardLowerBound ==
    (/\ GroupDone
     /\ 0 < min_chunk_size
     /\ min_chunk_size <= target_chunk_size
     /\ target_chunk_size <= max_chunk_size
     /\ Len(grp.chunks) # 1)
    => \A k \in 1..Len(grp.chunks) : Len(grp.chunks[k].text) >= min_chunk_size

\* C28 (as claimed): every chunk _group_sentences emits holds at least one
\* sentence occurrence that the chunk before it does not hold; no two
\* consecutive chunks are identical, and no chunk holds a sentence
\* occurrence twice (the final merge adds nothing the previous chunk
\* already holds).
C28_EveryChunkProgresses ==
    GroupDone
    => /\ \A k \in 2..Len(grp.made) :
             \E s \in Range(grp.made[k].sents) : s \notin Range(grp.made[k - 1].sents)
       /\ \A k \in 2..Len(grp.chunks) : grp.chunks[k] # grp.chunks[k - 1]
       /\ \A k \in 1..Len(grp.made) :
             \A a, b \in 1..Len(grp.made[k].sents) :
                a # b => grp.made[k].sents[a] # grp.made[k].sents[b]

(***************************************************************************)
(* Claims about _split_oversized_sentences, checked under SpecSplit.       *)
(***************************************************************************)
SplitReturned == split_out.pc = "returned"

\* text holds a whitespace-delimited token longer than max_chunk_size
HasOversizedToken(txt) ==
    \E k \in 1..Len(SplitWs(txt)) : Len(SplitWs(txt)[k]) > max_chunk_size

\* C4 (as claimed): every sentence _split_oversized_sentences returns has
\* at most max_chunk_size characters unless it holds a single
\* whitespace-delimited token longer than that.  (The claim's sentence of
\* 2 x max_chunk_size characters with semicolons is one instance.)
C4_PartsWithinMax ==
    SplitReturned
    => \A k \in 1..Len(split_out.result) :
          \/ Len(split_out.result[k][1]) <= max_chunk_size
          \/ HasOversizedToken(split_out.result[k][1])

\* the texts of the sentences joined without a separator, and a text with
\* all whitespace deleted
RECURSIVE Flat(_)
Flat(sents) == IF sents = <<>> THEN <<>> ELSE sents[1][1] \o Flat(Tail(sents))

NoSpace(txt) == SelectSeq(txt, LAMBDA c : ~IsSpace(c))

\* the separator the first pass splits an oversized sentence on
SplitSeparator(txt) ==
    IF Contains(txt, ";") THEN ";" ELSE IF Contains(txt, ":") THEN ":"
    ELSE IF Contains(txt, ",") THEN "," ELSE " "

\* C18 (as claimed): oversized-sentence splitting preserves content: the
\* texts of the output parts, concatenated in order with all whitespace
\* deleted, give the input sentences with all whitespace deleted; when a
\* sentence is split on ';', ':' or ',', every output part except the last
\* one ends with that separator.
C18_SplitPreservesContent ==
    SplitReturned
    => /\ NoSpace(Flat(split_out.result)) = NoSpace(Flat(split_in))
       /\ (/\ Len(split_in) = 1
           /\ Len(split_in[1][1]) > max_chunk_size
           /\ SplitSeparator(split_in[1][1]) \in Separators)
          => \A k \in 1..(Len(split_out.result) - 1) :
                LET part == split_out.result[k][1]
                IN  part[Len(part)] = SplitSeparator(split_in[1][1])

\* C24 (as claimed): for every max_chunk_size >= 1 and every sentence list
\* _split_oversized_sentences returns without raising; the word groups of
\* the first pass and of the force split hold at least 1 and at most
\* max(1, max_chunk_size // 10) words.
C24_SplitNeverRaises ==
    /\ split_out.pc # "raised"
    /\ (/\ SplitReturned
        /\ Len(split_in) = 1
        /\ Len(split_in[1][1]) > max_chunk_size
        /\ SplitSeparator(split_in[1][1]) = " ")
       => \A k \in 1..Len(split_out.result) :
             LET n == Len(SplitWs(split_out.result[k][1]))
             IN  1 <= n /\ n <= Max2(1, max_chunk_size \div WordsDivisor)

\* the texts a sentence longer than max_chunk_size is split into, by the
\* rule of the claim: cut at every occurrence of the separator sep and
\* nowhere else, pieces stripped and empty ones left out, sep put back on
\* every piece but the last; a piece that is still too long gives its
\* word groups
RECURSIVE PiecesFrom(_, _, _)
PiecesFrom(pieces, k, sep) ==
    IF k > Len(pieces) THEN <<>>
    ELSE LET piece == Strip(pieces[k])
         IN  (IF piece = <<>> THEN <<>>
              ELSE IF Len(piece) > max_chunk_size
              THEN WordGroups(SplitWs(piece),
                              Max2(1, max_chunk_size \div WordsDivisor))
              ELSE IF k < Len(pieces) /\ sep \in Separators
              THEN <<piece \o <<sep>>>>
              ELSE <<piece>>)
             \o PiecesFrom(pieces, k + 1, sep)

CutBySeparator(txt) ==
    LET sep == SplitSeparator(txt)
    IN  PiecesFrom(IF sep \in Separators THEN SplitOn(txt, sep)
                   ELSE WordGroups(SplitWs(txt), max_chunk_size \div WordsDivisor),
                   1, sep)

\* the parts of the result that come from the first input sentence (the
\* second one, where there is one, fits max_chunk_size in every call that
\* returns)
FirstSentenceParts ==
    SubSeq(split_out.result, 1, Len(split_out.result) - (Len(split_in) - 1))

\* C25: a sentence of length <= max_chunk_size is returned unchanged, text
\* and offsets, and the input order is kept; a longer sentence is cut on
\* one separator class, the first present of ';', ':', ',', else into word
\* groups, so a sentence holding ';' is not cut at ':' or ',' in the first
\* pass; the first part of a split sentence starts at the sentence's start
\* offset.
C25_SplitByPriority ==
    SplitReturned
    => /\ \A j \in 1..Len(split_in) :
             Len(split_in[j][1]) <= max_chunk_size
             => split_out.result[Len(split_out.result) - (Len(split_in) - j)]
                   = split_in[j]
       /\ Len(split_in[1][1]) <= max_chunk_size => split_out.result = split_in
       /\ Len(split_in[1][1]) > max_chunk_size
          => /\ [k \in 1..Len(FirstSentenceParts) |-> FirstSentenceParts[k][1]]
                   = CutBySeparator(split_in[1][1])
             /\ FirstSentenceParts # <<>>
                => FirstSentenceParts[1][2] = split_in[1][2]

\* C25 witness: a sentence at offset 2 holding both ';' and ',' was longer
\* than max_chunk_size and came back as two or more parts, one of them
\* still holding the ','.
C25_Witness ==
    /\ SplitReturned
    /\ Len(split_in) = 1
    /\ split_in[1][2] = 2
    /\ Len(split_in[1][1]) > max_chunk_size
    /\ Contains(split_in[1][1], ";") /\ Contains(split_in[1][1], ",")
    /\ Len(split_out.result) >= 2
    /\ \E k \in 1..Len(split_out.result) : Contains(split_out.result[k][1], ",")

(***************************************************************************)
(* Claims about chunk_text, checked under Spec.                            *)
(***************************************************************************)
Blank(doc) == doc = <<>> \/ Len(Strip(doc)) = 0

\* C1 (as claimed): chunk_text never raises, whatever the validated
\* configuration, the backend mode and the text, and returns [] for an
\* empty or whitespace-only text.
C1_ChunkTextNeverRaises ==
    /\ pc # "raised"
    /\ (pc = "returned" /\ Blank(text)) => result = <<>>

\* the iterations a sliding window of stride > 0 needs to pass n characters
CeilDiv(n, stride) == (n + stride - 1) \div stride

\* C2 (as claimed): every FixedChunker run the system reaches has a stride
\* chunk_size - overlap > 0, and its loop ends after
\* ceil(len(text) / stride) iterations.
C2_FixedStridePositive ==
    fx.pc # "idle"
    => /\ fx.chunk_size - fx.overlap > 0
       /\ fx.pc = "returned"
          => fx.steps = CeilDiv(Len(fx.text), fx.chunk_size - fx.overlap)

\* the explicitly requested backend cannot be initialized
BackendMissing ==
    \/ chunker[1].backend = "spacy" /\ ~spacy_ok
    \/ chunker[1].backend = "nltk" /\ ~nltk_ok

Resolved == pc \notin {"idle", "extract"} /\ ~Blank(text)

BatchSentences(k) ==
    extract_sentences_nltk_batch(
        Slice(text, k * BatchChars, k * BatchChars + BatchChars),
        k \in nltk_failing, k * BatchChars)

RECURSIVE ConcatBatches(_)
ConcatBatches(k) ==
    IF k * BatchChars >= Len(text) THEN <<>>
    ELSE BatchSentences(k) \o ConcatBatches(k + 1)

\* C9 (as claimed): for a document longer than the batch threshold under
\* the NLTK backend, the extracted sentences are those of the batches in
\* order; every sentence (s, a, b) of batch k has a >= the batch's start
\* offset and text[a:b] contains s, also when the batch's tokenization
\* raised and the regex fallback handled it; starts never decrease.
C9_BatchOffsetsAbsolute ==
    (pc = "split" /\ chunker[1].backend_used = "nltk" /\ last_get[1] = "ok"
        /\ Len(text) > BatchChars)
    => /\ sentences = ConcatBatches(0)
       /\ \A k \in 0..(Len(text) \div BatchChars) :
             \A n \in 1..Len(BatchSentences(k)) :
                LET s == BatchSentences(k)[n]
                IN  /\ s[2] >= k * BatchChars
                    /\ Find(Slice(text, s[2], s[3]), s[1], 0) # -1
       /\ \A n \in 1..(Len(sentences) - 1) : sentences[n][2] <= sentences[n + 1][2]

\* C10 (as claimed): every Chunk the semantic pipeline produces has
\* start_char <= end_char and sentence_count >= 0, with sentence_count = 0
\* only for an empty text; start_char is the first joined sentence's start,
\* end_char the last one's end, text the sentences joined by single spaces.
C10_ChunkWellFormed ==
    (pc = "returned" /\ grp.pc = "done")
    => \A k \in 1..Len(grp.chunks) :
          LET c == grp.chunks[k]
              from == grp.made[k].sents
          IN  /\ c.start_char <= c.end_char
              /\ c.sentence_count >= 0
              /\ c.sentence_count = 0 => c.text = <<>>
              /\ c.start_char = from[1][2]
              /\ c.end_char = from[Len(from)][3]
              /\ c.text = Join(Texts(from), <<" ">>)

\* resolution or the backend's extraction threw in the step just taken
ExtractionThrew ==
    \/ last_get'[1] = "raised"
    \/ chunker'[1].backend_used = "spacy" /\ 0 \in nltk_failing

\* C16: _extract_sentences never raises; when backend resolution or the
\* backend's extraction throws, its result is the empty sequence; on an
\* empty result chunk_text goes to the fallback, which groups the naive
\* punctuation split with _group_sentences and uses FixedChunker only
\* when that split gives no sentence.
C16_ExtractFailureFallsBack ==
    [][/\ pc = "extract"
          => /\ pc' \in {"split", "fallback"}
             /\ ExtractionThrew => sentences' = <<>>
             /\ pc' = "fallback" <=> sentences' = <<>>
       /\ pc = "fallback"
          => LET naive == StripNonEmpty(ReSplitFrom(text, 0, 0))
             IN  IF naive # <<>>
                 THEN /\ pc' = "returned"
                      /\ fx' = fx
                      /\ sentences' = [k \in 1..Len(naive) |-> <<naive[k], 0, 0>>]
                      /\ grp'.pc = "done"
                      /\ result' = ChunkTexts(grp'.chunks)
                 ELSE /\ pc' = "fixed"
                      /\ fx'.pc # "idle"
                      /\ fx'.text = text
                      /\ fx'.chunk_size = target_chunk_size
                      /\ grp' = grp]_vars

\* C16 witness: spaCy was resolved, its extraction threw, and chunk_text
\* returned the chunks grouped from the naive split.
C16_Witness ==
    /\ pc = "returned"
    /\ chunker[1].backend_used = "spacy"
    /\ last_get[1] = "ok"
    /\ 0 \in nltk_failing
    /\ grp.pc = "done"
    /\ fx = FixedIdle
    /\ result # <<>>

\* how often the character c occurs in txt, and in the chunks together
CountIn(c, txt) == Cardinality({k \in 1..Len(txt) : txt[k] = c})

RECURSIVE CountInAll(_, _)
CountInAll(c, texts) ==
    IF texts = <<>> THEN 0 ELSE CountIn(c, texts[1]) + CountInAll(c, Tail(texts))

\* C29 (as claimed): with the regex backend chunk_text loses no document
\* text: every non-whitespace character of the input occurs in a returned
\* chunk, also the text after the last '.', '!' or '?', so the returned
\* chunks together hold each non-whitespace character at least as often
\* as the input does.
C29_RegexLosesNoText ==
    (pc = "returned" /\ chunker[1].backend = "regex")
    => \A c \in Range(text) :
          ~IsSpace(c) => CountInAll(c, result) >= CountIn(c, text)

(***************************************************************************)
(* Claims about backend resolution, checked under SpecBackend.             *)
(***************************************************************************)
Occurrences(seq, x) == Cardinality({k \in 1..Len(seq) : seq[k] = x})

\* C7 (as claimed): over any sequence of _get_tokenizer calls on one
\* instance each loader is run at most once, however the first resolution
\* ended, and a resolved backend_used never changes afterwards, also when
\* library availability changes between the calls; a call on one instance
\* leaves the other instance's state alone.
C7_ResolutionMemoized ==
    [][\A n \in Inst :
          /\ Occurrences(loads'[n], "spacy") <= 1
          /\ Occurrences(loads'[n], "nltk") <= 1
          /\ chunker[n].backend_used # "None"
             => chunker'[n].backend_used = chunker[n].backend_used
          /\ GetTokenizerCall(n)
             => \A m \in Inst \ {n} :
                   chunker'[m] = chunker[m] /\ loads'[m] = loads[m]]_vars

\* the loaders the step ran on instance n, in order
LoadersRun(n) == SubSeq(loads'[n], Len(loads[n]) + 1, Len(loads'[n]))

\* C17: in mode auto a resolution runs the loaders in the order spaCy,
\* NLTK and takes the first that loads, regex when neither does: spacy iff
\* spaCy loads, nltk iff spaCy does not load and NLTK loads, regex iff
\* neither loads; the NLTK loader is not run when spaCy loaded, and the
\* resolution never ends in an error.  In mode regex no loader is run and
\* resolution cannot fail.
C17_AutoOrder ==
    [][\A n \in Inst :
          (GetTokenizerCall(n) /\ chunker[n].tokenizer = "None")
          => /\ chunker[n].backend = "auto"
                => /\ last_get'[n] = "ok"
                   /\ chunker'[n].backend_used = "spacy" <=> spacy_ok
                   /\ chunker'[n].backend_used = "nltk" <=> (~spacy_ok /\ nltk_ok)
                   /\ chunker'[n].backend_used = "regex" <=> (~spacy_ok /\ ~nltk_ok)
                   /\ LoadersRun(n) = IF spacy_ok THEN <<"spacy">>
                                      ELSE <<"spacy", "nltk">>
             /\ chunker[n].backend = "regex"
                => /\ last_get'[n] = "ok"
                   /\ chunker'[n].backend_used = "regex"
                   /\ LoadersRun(n) = <<>>]_vars

\* C17 witness: an auto chunker resolved to nltk after the spaCy loader and
\* then the NLTK loader ran, while the other instance, in mode regex,
\* resolved without a loader.
C17_Witness ==
    \E n \in Inst : \E o \in Inst \ {n} :
        /\ chunker[n].backend = "auto"
        /\ chunker[n].backend_used = "nltk"
        /\ loads[n] = <<"spacy", "nltk">>
        /\ last_get[n] = "ok"
        /\ chunker[o].backend = "regex"
        /\ chunker[o].backend_used = "regex"
        /\ loads[o] = <<>>

(***************************************************************************)
(* Claims about analyze, checked under SpecAnalyze.                        *)
(***************************************************************************)
Analyzed == rpc = "returned" /\ method = "none"

\* the score in tenths that the claims give to the query: 4 for a broad
\* keyword, minus 2 for a specific keyword without a broad one, plus 3 for
\* a multi-subject marker, plus 2 for more than 8 words, clamped to 0..10
ClaimedTenths ==
    LET ql == Strip(Lower(query))
        B == \E k \in 1..Len(BROAD_KEYWORDS) : IsSubstring(BROAD_KEYWORDS[k], ql)
        S == \E k \in 1..Len(SPECIFIC_KEYWORDS) :
                 IsSubstring(SPECIFIC_KEYWORDS[k], ql)
        M == \E k \in 1..Len(conjunctions) : IsSubstring(conjunctions[k], ql)
        L == Len(SplitWs(query)) > 8
        raw == (IF B THEN 4 ELSE 0) - (IF S /\ ~B THEN 2 ELSE 0)
                 + (IF M THEN 3 ELSE 0) + (IF L THEN 2 ELSE 0)
    IN  Max2(0, Min2(10, raw))

\* C12 (as claimed): for min_top_k <= max_top_k the returned top_k is
\* min_top_k + score * (max_top_k - min_top_k) rounded to the nearest
\* integer (a fractional part above one half goes up, one below one half
\* goes down) and then clamped to [min_top_k, max_top_k].
C12_TopKRoundedToNearest ==
    (Analyzed /\ min_top_k <= max_top_k)
    => LET hundredths == 100 * min_top_k
                            + analysis.complexity_score * (max_top_k - min_top_k)
           down == hundredths \div 100
           part == hundredths % 100
           clamp(v) == Max2(min_top_k, Min2(max_top_k, v))
       IN  /\ part > 50 => analysis.top_k = clamp(down + 1)
           /\ part < 50 => analysis.top_k = clamp(down)
           /\ part = 50 => analysis.top_k \in {clamp(down), clamp(down + 1)}

C26_AnyCommaFires ==
    Analyzed
    => LET ql == Strip(Lower(query))
           fired == \E k \in 1..Len(analysis.reasoning.reasons) :
                        analysis.reasoning.reasons[k] = "multiple subjects"
       IN  fired <=> \/ IsSubstring(<<" ", "a", "n", "d", " ">>, ql)
                     \/ IsSubstring(<<" ", "o", "r", " ">>, ql)
                     \/ IsSubstring(<<",">>, ql)

\* the reasoning of the returned dictionary names this reason
Named(reason) ==
    \E k \in 1..Len(analysis.reasoning.reasons) : analysis.reasoning.reasons[k] = reason

\* C27 (as claimed): the reasoning names a signal iff that signal fired;
\* 'specific keyword detected' is listed only when the -0.2 adjustment was
\* applied: a specific keyword matched and no broad keyword matched.
C27_ReasonsNameFiredSignals ==
    Analyzed
    => LET ql == Strip(Lower(query))
           B == check_keywords(ql, BROAD_KEYWORDS)
           S == check_keywords(ql, SPECIFIC_KEYWORDS)
       IN  /\ Named("broad keyword detected") <=> B
           /\ Named("specific keyword detected") <=> (S /\ ~B)
           /\ Named("multiple subjects") <=> has_multiple_subjects(ql)
           /\ Named("long query") <=> Len(SplitWs(query)) > 8

\* the float score of the query before it is rounded for the result
UnroundedScore ==
    LET ql == Strip(Lower(query))
    IN  ScoreOf(check_keywords(ql, BROAD_KEYWORDS),
                check_keywords(ql, SPECIFIC_KEYWORDS),
                has_multiple_subjects(ql), Len(SplitWs(query)) > 8)

\* C30: the complexity score is one of 0, 0.1, 0.2, 0.3, 0.4, 0.5, 0.6,
\* 0.7, 0.9 and never exceeds 0.9; for min_top_k <= max_top_k,
\* min_top_k <= top_k <= min_top_k + floor(0.9 * (max_top_k - min_top_k)),
\* and top_k = max_top_k only when max_top_k = min_top_k.
C30_ScoreAtMostNineTenths ==
    (Analyzed /\ min_top_k <= max_top_k)
    => /\ analysis.complexity_score \in {0, 10, 20, 30, 40, 50, 60, 70, 90}
       /\ DblGeq(DblLiteral(9), UnroundedScore)
       /\ min_top_k <= analysis.top_k
       /\ analysis.top_k <= min_top_k + (9 * (max_top_k - min_top_k)) \div 10
       /\ analysis.top_k = max_top_k => max_top_k = min_top_k

\* C30 witness: a query with a broad keyword, several subjects and more
\* than 8 words scored 0.9 with the default bounds, and top_k stayed below
\* max_top_k.
C30_Witness ==
    /\ Analyzed
    /\ analysis.complexity_score = 90
    /\ min_top_k = DefaultMinTopK /\ max_top_k = DefaultMaxTopK
    /\ analysis.top_k < max_top_k

(***************************************************************************)
(* FixedChunker on its own: SpecFixed runs chunk_text of a FixedChunker    *)
(* with 0 <= overlap < chunk_size, one loop iteration per step.  fx.spans  *)
(* is history: start and end of every window that was appended.            *)
(***************************************************************************)
FixedTexts == UNION {[1..n -> {"a", " "}] : n \in 0..MaxFixedLen}

\* text of length 1000, chunk_size 500, overlap 50
FixedExample ==
    [chunk_size |-> 500, overlap |-> 50, text |-> [k \in 1..1000 |-> "a"]]

FixedCalls ==
    {[chunk_size |-> c, overlap |-> o, text |-> t] :
        c \in 1..MaxFixedSize, o \in 0..(MaxFixedSize - 1), t \in FixedTexts}
        \cup {FixedExample}

InitFixed ==
    /\ config = NoConfig
    /\ min_chunk_size = 1
    /\ max_chunk_size = 1
    /\ target_chunk_size = 1
    /\ overlap_sentences = 0
    /\ sentences = <<>>
    /\ grp = GroupIdle
    /\ split_in = <<>>
    /\ split_out = NotCalled
    /\ chunker = [n \in Inst |-> NewChunker("regex")]
    /\ spacy_ok = FALSE
    /\ nltk_ok = FALSE
    /\ nltk_failing = {}
    /\ loads = [n \in Inst |-> <<>>]
    /\ last_get = [n \in Inst |-> "none"]
    /\ text = <<>>
    /\ pc = "off"
    /\ result = <<>>
    /\ NoQuery
    /\ \E c \in FixedCalls :
          /\ c.overlap < c.chunk_size
          /\ fx = [spans |-> <<>>] @@ FixedStart(c.chunk_size, c.overlap, c.text)

\* while start < text_len: one iteration
FixedLoop ==
    /\ fx.pc = "loop"
    /\ fx.start < Len(fx.text)
    /\ LET after == FixedIter(fx)
           end == Min2(fx.start + fx.chunk_size, Len(fx.text))
       IN  fx' = [after EXCEPT !.spans =
                      IF Len(after.chunks) > Len(fx.chunks)
                      THEN Append(@, <<fx.start, end>>) ELSE @]
    /\ UNCHANGED <<retrVars, cfgVars, grpVars, splitVars, envVars, backendVars, callVars>>

\* the loop condition fails: return chunks
FixedLoopEnd ==
    /\ fx.pc = "loop"
    /\ fx.start >= Len(fx.text)
    /\ fx' = [fx EXCEPT !.pc = "returned"]
    /\ UNCHANGED <<retrVars, cfgVars, grpVars, splitVars, envVars, backendVars, callVars>>

NextFixed == FixedLoop \/ FixedLoopEnd

SpecFixed == InitFixed /\ [][NextFixed]_vars

(***************************************************************************)
(* Claims about FixedChunker.chunk_text, checked under SpecFixed.          *)
(***************************************************************************)
FixedReturned == fx.pc = "returned"

\* the stride and the number of windows k with k * stride < len(text)
Stride == fx.chunk_size - fx.overlap

WindowCount == (Len(fx.text) + Stride - 1) \div Stride

\* window k (from 0) as a pair of positions, and its text
WindowSpan(k) == <<k * Stride, Min2(k * Stride + fx.chunk_size, Len(fx.text))>>

WindowText(k) == Slice(fx.text, WindowSpan(k)[1], WindowSpan(k)[2])

\* C14: for 0 <= overlap < chunk_size, chunk_text returns, in increasing k,
\* exactly the windows text[k*s : min(k*s + chunk_size, len(text))] with
\* s = chunk_size - overlap and k*s < len(text), leaving out only the
\* empty or whitespace-only ones; [] for the empty text; length 1000 with
\* chunk_size 500 and overlap 50 gives 3 chunks at 0, 450, 900 of lengths
\* 500, 500, 100.
C14_FixedWindows ==
    FixedReturned
    => LET all == [k \in 1..WindowCount |-> k - 1]
           kept == SelectSeq(all, LAMBDA k : Strip(WindowText(k)) # <<>>)
       IN  /\ fx.chunks = [j \in 1..Len(kept) |-> WindowText(kept[j])]
           /\ fx.spans = [j \in 1..Len(kept) |-> WindowSpan(kept[j])]
           /\ fx.text = <<>> => fx.chunks = <<>>
           /\ (fx.text = FixedExample.text /\ fx.chunk_size = 500 /\ fx.overlap = 50)
              => /\ fx.spans = <<<<0, 500>>, <<450, 950>>, <<900, 1000>>>>
                 /\ [j \in 1..Len(fx.chunks) |-> Len(fx.chunks[j])] = <<500, 500, 100>>

\* C14 witness: a run with a positive overlap has returned three windows
\* and left one out.
C14_Witness ==
    /\ FixedReturned
    /\ fx.overlap > 0
    /\ Len(fx.chunks) = 3
    /\ WindowCount > 3

\* the positions of the text, the windows a position lies in, and the
\* returned chunks it lies in
Positions == 0..(Len(fx.text) - 1)

WindowsAt(p) ==
    {k \in 0..(WindowCount - 1) : WindowSpan(k)[1] <= p /\ p < WindowSpan(k)[2]}

ChunksAt(p) ==
    {j \in 1..Len(fx.spans) : fx.spans[j][1] <= p /\ p < fx.spans[j][2]}

NoBlankChunk == \A j \in 1..Len(fx.chunks) : Strip(fx.chunks[j]) # <<>>

\* C15 (as claimed): for 0 <= overlap < chunk_size the returned chunks
\* cover the input: every position lies in at least one returned chunk,
\* every position outside the overlap of two windows lies in exactly one,
\* and no returned chunk is empty or whitespace-only.
C15_CoversEveryPosition ==
    FixedReturned
    => /\ \A p \in Positions : ChunksAt(p) # {}
       /\ \A p \in Positions :
              Cardinality(WindowsAt(p)) = 1 => Cardinality(ChunksAt(p)) = 1
       /\ NoBlankChunk

\* C15 (amended): every position lies in at least one window; a position
\* holding a non-whitespace character lies in at least one returned chunk,
\* a position of exactly one window lies in exactly one returned chunk
\* unless that window is whitespace-only, and then in none; each returned
\* chunk is the text of its window and none is empty or whitespace-only.
C15_CoversNonBlank ==
    FixedReturned
    => /\ \A p \in Positions : WindowsAt(p) # {}
       /\ \A p \in Positions : ~IsSpace(fx.text[p + 1]) => ChunksAt(p) # {}
       /\ \A p \in Positions :
              Cardinality(WindowsAt(p)) = 1
              => LET k == CHOOSE w \in WindowsAt(p) : TRUE
                 IN  Cardinality(ChunksAt(p))
                        = IF Strip(WindowText(k)) = <<>> THEN 0 ELSE 1
       /\ Len(fx.spans) = Len(fx.chunks)
       /\ \A j \in 1..Len(fx.chunks) :
              fx.chunks[j] = Slice(fx.text, fx.spans[j][1], fx.spans[j][2])
       /\ NoBlankChunk

\* C15 witness: a run with a positive overlap has returned two chunks or
\* more and a position of the text lies in none of them.
C15_Witness ==
    /\ FixedReturned
    /\ fx.overlap > 0
    /\ Len(fx.chunks) >= 2
    /\ \E p \in Positions : ChunksAt(p) = {}

(***************************************************************************)
(* Claims about expand, checked under SpecExpand.                          *)
(***************************************************************************)
Expanded == rpc = "returned" /\ method # "none"

\* some key of the synonym table is a substring of the lowercased query
KeyInQuery ==
    \E k \in 1..Len(VariantKeys) : IsSubstring(VariantKeys[k], Lower(query))

\* C19: for max_variants >= 1, expand(query, 'keyword') returns a list
\* whose first element is the query unchanged, whose elements are pairwise
\* distinct and whose length is at most max_variants; when no synonym-table
\* key is a substring of the lowercased query the list is [query].
C19_KeywordVariants ==
    (Expanded /\ method = "keyword" /\ max_variants >= 1)
    => /\ Len(variants) >= 1
       /\ variants[1] = query
       /\ \A i, j \in 1..Len(variants) : i # j => variants[i] # variants[j]
       /\ Len(variants) <= max_variants
       /\ ~KeyInQuery => variants = <<query>>

\* C19 witness: a keyword expansion of a capitalized query holding a key
\* returned max_variants >= 3 elements.
C19_Witness ==
    /\ Expanded
    /\ method = "keyword"
    /\ KeyInQuery
    /\ IsUpper(query[1])
    /\ max_variants >= 3
    /\ Len(variants) = max_variants

\* C20: for every query and every max_variants, expand(query, 'llm')
\* returns the list expand(query, 'keyword') returns; for any other method
\* name expand returns [query].
C20_LlmIsKeyword ==
    Expanded
    => /\ method = "llm" => variants = expand(max_variants, query, "keyword")
       /\ method \notin {"keyword", "llm"} => variants = <<query>>

\* C20 witness: an expansion with the method 'llm' returned the query and
\* at least one variant.
C20_Witness ==
    /\ Expanded
    /\ method = "llm"
    /\ Len(variants) >= 2
    /\ variants[1] = query

(***************************************************************************)
(* Claims about ChunkingConfig, checked under SpecConfig.                  *)
(***************************************************************************)
\* C21 (as claimed): constructing a chunking configuration succeeds iff
\* 0 < overlap < chunk_size, 0 < min_chunk_size <= max_chunk_size,
\* overlap_sentences >= 0 and the strategy is 'fixed' or 'semantic'; for
\* any other values construction fails with a configuration error and no
\* configuration object is produced.
C21_ConstructionIffValid ==
    config.pc \in {"constructed", "raised"}
    => LET a == config.args
           valid == /\ 0 < a.chunk_overlap /\ a.chunk_overlap < a.chunk_size
                    /\ 0 < a.min_chunk_size /\ a.min_chunk_size <= a.max_chunk_size
                    /\ a.overlap_sentences >= 0
                    /\ a.chunking_strategy \in {"fixed", "semantic"}
       IN  /\ config.pc = "constructed" <=> valid
           /\ config.pc = "raised" <=> config.object = <<>>

====
